---- MODULE Spec2Model ----
(***************************************************************************)
(* Model of the tmux-mobile connection-and-session broker                  *)
(* (src/src/backend/server.ts), its TerminalRuntime                        *)
(* (src/src/backend/pty/terminal-runtime.ts), AuthService                  *)
(* (src/src/backend/auth/auth-service.ts), TmuxStateMonitor                *)
(* (src/src/backend/state/state-monitor.ts, lines 1-83) and the list       *)
(* commands of TmuxCliExecutor (src/src/backend/tmux/cli-executor.ts) with *)
(* their parser (src/src/backend/tmux/types.ts, lines 67-115).             *)
(*                                                                         *)
(* Every `await` of the source is a suspension point: the code between two *)
(* awaits is one action.  A gateway call takes effect in the action that   *)
(* resumes the handler awaiting it.                                        *)
(*                                                                         *)
(* The specifications share the variables.  MonSpec and LiveSpec are the   *)
(* state monitor on its own (the broker stands still), LiveSpec with the   *)
(* fairness of a gateway whose calls return.  ParseSpec is the list        *)
(* commands on their own.  The others are the broker                       *)
(* after start() in one scenario each, fixed by the record limits: which   *)
(* sockets connect, what they send, how many gateway calls fail.  There    *)
(* the monitor appears as its onUpdate callback (BroadcastState) and as    *)
(* the forcePublish call that ends every handler.                          *)
(***************************************************************************)
EXTENDS Integers, Sequences, FiniteSets, TLC

\* ------------------------------------------------------------------ bounds
MaxBuilds == 4        \* snapshot builds started in one monitor run
MaxMutations == 2     \* changes of the multiplexer state in one monitor run
MaxHandlers == 4      \* handlers in flight on one control socket
MaxStopCalls == 2     \* calls of stop()
IsoControlMsgs == 2   \* IsoSpec: control messages received
IsoDataMsgs == 4      \* IsoSpec: data frames received
IsoEvents == 1        \* IsoSpec: PTY chunks emitted
EvictControlMsgs == 3 \* EvictSpec: control messages received
PipeControlMsgs == 3  \* PipeSpec: control messages received
PipeEvents == 1       \* PipeSpec: PTY events and state broadcasts
AttachControlMsgs == 2 \* AttachSpec: control messages received
AttachDataMsgs == 2   \* AttachSpec: data frames received
AttachEvents == 1     \* AttachSpec: PTY events and state broadcasts
ChunkControlMsgs == 2 \* ChunkSpec: control messages received
ChunkDataMsgs == 2    \* ChunkSpec: data frames received
StopControlMsgs == 2  \* StopSpec: control messages received
StopFailures == 1     \* StopSpec: gateway calls that fail
EnsureControlMsgs == 2 \* EnsureSpec: control messages received
PickControlMsgs == 4  \* PickSpec: control messages received
RestoreControlMsgs == 3 \* RestoreSpec: control messages received
RestoreEvents == 1    \* RestoreSpec: state broadcasts
RestoreFailures == 1  \* RestoreSpec: gateway calls that fail
ForceControlMsgs == 3 \* ForceSpec: control messages received
ForceFailures == 1    \* ForceSpec: gateway calls that fail
ChunkEvents == 3      \* ChunkSpec: PTY chunks emitted
GateControlMsgs == 3  \* GateSpec: control messages received
GateEvents == 1       \* GateSpec: state broadcasts
DataControlMsgs == 1  \* DataSpec: control messages received
DataDataMsgs == 3     \* DataSpec: data frames received
WindowControlMsgs == 4  \* WindowSpec: control messages received
FailControlMsgs == 2    \* FailSpec: control messages received
FailFailures == 1       \* FailSpec: gateway calls or spawns that fail
FrameControlMsgs == 1   \* FrameSpec: control messages received
FrameDataMsgs == 3      \* FrameSpec: data frames received
FrameEvents == 1        \* FrameSpec: PTY exits
VerifyControlMsgs == 3  \* VerifySpec: control messages received
ExitControlMsgs == 2    \* ExitSpec: control messages received
ExitEvents == 1         \* ExitSpec: PTY exits
StaleControlMsgs == 3   \* StaleSpec: control messages
ResizeControlMsgs == 2  \* ResizeSpec: control messages
ResizeDataMsgs == 2     \* ResizeSpec: data frames
NameControlMsgs == 3    \* NameSpec: control messages
RuntimeEvents == 5      \* RuntimeSpec: method calls and PTY exits

Undefined == "undefined"

\* ======================================================================
\*  TmuxStateMonitor
\* ======================================================================
VARIABLES
  running,              \* TmuxStateMonitor.running
  forceGeneration,      \* TmuxStateMonitor.forceGeneration
  lastSerializedState,  \* TmuxStateMonitor.lastSerializedState
  timerArmed,           \* this.timer refers to a timeout that has not fired
  strayTimers,          \* armed timeouts this.timer no longer refers to
  builds,               \* publishSnapshot calls suspended in buildSnapshot
  clock,                \* number of builds started so far (build ids)
  tmuxState,            \* what the gateway would list now
  mutations,            \* changes of tmuxState so far
  startCalled,          \* start() has been called
  delivered,            \* history: the calls of onUpdate, in order
  discarded,            \* history: builds dropped by the staleness test
  suppressed,           \* history: builds dropped by the equality test
  onErrorCalls,         \* history: number of onError calls
  failedBuilds          \* history: the builds that threw, and what their caller did

monVars == <<running, forceGeneration, lastSerializedState, timerArmed,
             strayTimers, builds, clock, tmuxState, mutations, startCalled,
             delivered, discarded, suppressed, onErrorCalls, failedBuilds>>

\* Broker state (server.ts lines 19-41, 132-140)
VARIABLES
  configPassword,       \* config.password (Undefined when none is configured)
  csock,                \* control sockets: readyState ("none" before connect)
  cclose,               \* control sockets: close code the broker gave
  controlClients,       \* the Set controlClients
  context,              \* ControlContext fields, per control connection
  runtimes,             \* TerminalRuntime objects created for each context
  ptys,                 \* every PtyProcess spawned so far
  handlers,             \* async message handlers in flight, per control socket
  arrivals,             \* messages received so far, per control socket
  shutdowns,            \* shutdownControlContext calls started by socket close
  out,                  \* history: messages sent on each control socket
  authMark,             \* history: Len(out[c]) when context c became authed
  lastIn,               \* history: the last message received before auth
  reconnectStateByClientId,
  sessions,             \* multiplexer: existing sessions, name -> group target
  windowZoomed,         \* multiplexer: zoom flag of the active window
  dsock,                \* data sockets: readyState
  dclose,               \* data sockets: close code the broker gave
  dataContext,          \* DataContext fields, per data connection
  gatewayCalls,         \* history: gateway calls issued, with their cause
  ptyWrites,            \* history: writes that reached a PTY
  chunksSent,           \* history: PTY chunks sent to data sockets
  emitted,              \* history: PTY chunks emitted, with the sockets bound then
  dataIn,               \* history: the chunks each data socket was sent, in order
  dataFrames,           \* history: frames received in full, with the runtime calls made
  started,              \* the flag started (line 139)
  stopPromise,          \* stopPromise: "null", or the stage of the shutdown
  listening,            \* the HTTP server is listening
  stopCalls,            \* each stop() call: where it is, or how it ended
  stopShutdowns,        \* shutdownControlContext calls started by stop()
  stopRuns,             \* history: shutdown sequences begun
  cleanupErrors,        \* history: killSession failures logged in teardown
  ensured,              \* history: what ensureAttachedSession decided upon
  attachCalls,          \* history: calls of attachControlToBaseSession
  restores,             \* history: the steps of tryRestoreClientView, in order
  handled,              \* history: messages that passed the auth gate
  forcePublishCalls,    \* history: monitor.forcePublish() calls of the handlers
  controlMsgs,          \* control messages received so far (all sockets)
  dataMsgs,             \* data frames received so far (all sockets)
  events,               \* PTY events and state broadcasts so far
  failures,             \* gateway calls failed by the environment so far
  limits,               \* what the environment may do in this run
  cli                   \* TmuxCliExecutor: a list command, its output, its result

coreVars == <<configPassword, csock, cclose, controlClients, context, runtimes,
                ptys, handlers, arrivals, shutdowns, out, authMark, lastIn,
                reconnectStateByClientId, sessions, windowZoomed, dsock, dclose,
                dataContext, gatewayCalls, ptyWrites, chunksSent, emitted,
                dataIn, dataFrames, started, stopPromise, listening, stopCalls,
                stopShutdowns, stopRuns, cleanupErrors,
                ensured, attachCalls, restores, handled, forcePublishCalls, controlMsgs,
                dataMsgs, events, failures, limits>>
brokerVars == <<coreVars, cli>>

vars == <<monVars, brokerVars>>

TmuxStates == {"s0", "s1"}

\* JSON.stringify(snapshot.sessions): the JSON text of the sessions value;
\* two sessions values have the same text exactly when they are equal.
Serialize(snap) ==
  CASE snap = "s0" -> "[{\"name\":\"s0\"}]"
    [] snap = "s1" -> "[{\"name\":\"s1\"}]"

\* clearTimeout(this.timer); this.timer = undefined
ClearTimer == timerArmed' = FALSE /\ UNCHANGED strayTimers

\* scheduleNextTick: arms a timeout and stores it in this.timer; a timeout
\* this.timer referred to stays armed.
ScheduleNextTick ==
  IF running
    THEN /\ timerArmed' = TRUE
         /\ strayTimers' = strayTimers + (IF timerArmed THEN 1 ELSE 0)
    ELSE UNCHANGED <<timerArmed, strayTimers>>

NewBuild(force, origin) ==
  [id |-> clock + 1, gen |-> IF force THEN forceGeneration + 1 ELSE forceGeneration,
   force |-> force, origin |-> origin, snap |-> Undefined, superseded |-> FALSE]

\* start(): running = true; await publishSnapshot(false)
MonStart ==
  /\ ~startCalled
  /\ clock < MaxBuilds
  /\ startCalled' = TRUE
  /\ running' = TRUE
  /\ builds' = builds \cup {NewBuild(FALSE, "start")}
  /\ clock' = clock + 1
  /\ UNCHANGED <<forceGeneration, lastSerializedState, timerArmed, strayTimers,
                 tmuxState, mutations, delivered, discarded, suppressed, onErrorCalls, failedBuilds>>
  /\ UNCHANGED brokerVars

\* stop()
MonStop ==
  /\ running
  /\ running' = FALSE
  /\ ClearTimer
  /\ UNCHANGED <<forceGeneration, lastSerializedState, builds, clock, tmuxState,
                 mutations, startCalled, delivered, discarded, suppressed, onErrorCalls, failedBuilds>>
  /\ UNCHANGED brokerVars

\* forcePublish(), up to its await: the timer is cleared, the generation is
\* bumped and publishSnapshot(true) captures the new generation.
ForcePublish ==
  /\ startCalled
  /\ clock < MaxBuilds
  /\ ClearTimer
  /\ forceGeneration' = forceGeneration + 1
  /\ builds' = {[b EXCEPT !.superseded = TRUE] : b \in builds}
                 \cup {NewBuild(TRUE, "force")}
  /\ clock' = clock + 1
  /\ UNCHANGED <<running, lastSerializedState, tmuxState, mutations, startCalled,
                 delivered, discarded, suppressed, onErrorCalls, failedBuilds>>
  /\ UNCHANGED brokerVars

\* The timeout armed by scheduleNextTick fires: tick() -> publishSnapshot(false)
TimerFire ==
  /\ clock < MaxBuilds
  /\ \/ /\ timerArmed
        /\ timerArmed' = FALSE
        /\ UNCHANGED strayTimers
     \/ /\ strayTimers > 0
        /\ strayTimers' = strayTimers - 1
        /\ UNCHANGED timerArmed
  /\ builds' = builds \cup {NewBuild(FALSE, "tick")}
  /\ clock' = clock + 1
  /\ UNCHANGED <<running, forceGeneration, lastSerializedState, tmuxState,
                 mutations, startCalled, delivered, discarded, suppressed, onErrorCalls, failedBuilds>>
  /\ UNCHANGED brokerVars

\* buildSnapshot reads the gateway
BuildRead(b) ==
  /\ b.snap = Undefined
  /\ builds' = (builds \ {b}) \cup {[b EXCEPT !.snap = tmuxState]}
  /\ UNCHANGED <<running, forceGeneration, lastSerializedState, timerArmed,
                 strayTimers, clock, tmuxState, mutations, startCalled,
                 delivered, discarded, suppressed, onErrorCalls, failedBuilds>>
  /\ UNCHANGED brokerVars

\* publishSnapshot line 73: a newer forcePublish happened while building
StaleNever(b) == FALSE
Stale(b) == b.gen # forceGeneration

\* publishSnapshot line 78
ShouldPublishAlways(b) == TRUE
ShouldPublishIfChanged(b) == Serialize(b.snap) # lastSerializedState
ShouldPublish(b) == b.force \/ Serialize(b.snap) # lastSerializedState

\* What runs after publishSnapshot returns or throws, by caller:
\* start() line 22, scheduleNextTick's finally line 55, forcePublish's
\* finally lines 43-45.
AfterBuild(b) ==
  IF b.origin = "force" /\ b.gen # forceGeneration
    THEN UNCHANGED <<timerArmed, strayTimers>>
    ELSE ScheduleNextTick

\* buildSnapshot resolves: the rest of publishSnapshot, then the caller
BuildResolve(b) ==
  /\ b.snap # Undefined
  /\ builds' = builds \ {b}
  /\ IF Stale(b)
       THEN /\ discarded' = discarded \cup {[id |-> b.id, after |-> Len(delivered)]}
            /\ UNCHANGED <<lastSerializedState, delivered, suppressed>>
       ELSE IF ShouldPublish(b)
         THEN /\ lastSerializedState' = Serialize(b.snap)
              /\ delivered' = Append(delivered,
                   [id |-> b.id, snap |-> b.snap, force |-> b.force,
                    superseded |-> b.superseded, running |-> running])
              /\ UNCHANGED <<discarded, suppressed>>
         ELSE /\ suppressed' = suppressed \cup
                   {[id |-> b.id, snap |-> b.snap, after |-> Len(delivered)]}
              /\ UNCHANGED <<lastSerializedState, delivered, discarded>>
  /\ AfterBuild(b)
  /\ UNCHANGED <<running, forceGeneration, clock, tmuxState, mutations,
                 startCalled, onErrorCalls, failedBuilds>>
  /\ UNCHANGED brokerVars

\* publishSnapshot throws into its caller: start() (line 21) has no catch, so
\* the promise it returned rejects; tick() (lines 63-65) and forcePublish()
\* (lines 39-41) catch the error and pass it to onError
rejects(origin) == origin = "start"

\* buildSnapshot throws: start() rejects; tick() and forcePublish call onError
BuildFail(b) ==
  /\ builds' = builds \ {b}
  /\ failedBuilds' = failedBuilds \cup
       {[id |-> b.id, origin |-> b.origin, rejected |-> rejects(b.origin)]}
  /\ IF rejects(b.origin)
       THEN UNCHANGED <<timerArmed, strayTimers, onErrorCalls>>
       ELSE /\ onErrorCalls' = onErrorCalls + 1
            /\ AfterBuild(b)
  /\ UNCHANGED <<running, forceGeneration, lastSerializedState, clock, tmuxState,
                 mutations, startCalled, delivered, discarded, suppressed>>
  /\ UNCHANGED brokerVars

\* The multiplexer state changes (a mutation through the gateway or outside)
TmuxMutate ==
  /\ mutations < MaxMutations
  /\ mutations' = mutations + 1
  /\ tmuxState' = IF tmuxState = "s0" THEN "s1" ELSE "s0"
  /\ UNCHANGED <<running, forceGeneration, lastSerializedState, timerArmed,
                 strayTimers, builds, clock, startCalled, delivered, discarded, suppressed,
                 onErrorCalls, failedBuilds>>
  /\ UNCHANGED brokerVars

\* ======================================================================
\*  Broker: data model (server.ts lines 19-41, 82-97, 132-157)
\* ======================================================================
StopCallers == 1..MaxStopCalls     \* the calls of stop(), by caller
Ctx == {"c1", "c2", "c3"}          \* control connections, accepted in this order
Data == {"d1", "d2"}               \* data connections
CtxBefore(c) == CASE c = "c1" -> {} [] c = "c2" -> {"c1"} [] OTHER -> {"c1", "c2"}
DataBefore(d) == IF d = "d1" THEN {} ELSE {"d1"}

NoId == ""                          \* clientId: "" (line 414)
\* client ids a message may carry, as sent
RawClientIds == {"missing", "blank", "toolong", "X", " X "}
\* randomToken(12): a fresh id per call, different from every other id
randomToken(c) == CASE c = "c1" -> "r1" [] c = "c2" -> "r2" [] OTHER -> "r3"
ClientIds == {"X", "r1", "r2", "r3"}

\* session names
BaseNames == {"main", "work"}
MobileNames == {"tmux-mobile-client-X", "tmux-mobile-client-r1",
                "tmux-mobile-client-r2", "tmux-mobile-client-r3",
                "tmux-mobile-client-"}
defaultSession == "main"            \* config.defaultSession
PaneIds == {"%5"}
DefaultDims == <<80, 24>>           \* terminal-runtime.ts line 14

\* normalizeClientId (lines 88-97)
normalizeClientId(raw) ==
  CASE raw = "missing" -> Undefined      \* typeof value !== "string"
    [] raw = "blank" -> Undefined        \* !trimmed
    [] raw = "toolong" -> Undefined      \* trimmed.length > 128
    [] raw = " X " -> "X"                \* value.trim()
    [] OTHER -> raw

\* isManagedMobileSession (line 84): name.startsWith(MOBILE_SESSION_PREFIX)
isManagedNever(name) == FALSE
isManagedMobileSession(name) == name \in MobileNames

\* buildMobileSessionName (line 86): MOBILE_SESSION_PREFIX + clientId
buildMobileSessionName(clientId) ==
  CASE clientId = "X" -> "tmux-mobile-client-X"
    [] clientId = "r1" -> "tmux-mobile-client-r1"
    [] clientId = "r2" -> "tmux-mobile-client-r2"
    [] clientId = "r3" -> "tmux-mobile-client-r3"
    [] OTHER -> "tmux-mobile-client-"

\* AuthService.verify (auth-service.ts lines 21-31)
Tokens == {"T", "bad", Undefined}
Passwords == {"pw", "bad", Undefined}
verifyPasswordFirst(token, password) ==
  IF configPassword # Undefined /\ password # configPassword
    THEN [ok |-> FALSE, reason |-> "invalid password"]
    ELSE IF token = Undefined \/ token # "T"
      THEN [ok |-> FALSE, reason |-> "invalid token"]
      ELSE [ok |-> TRUE, reason |-> Undefined]
verify(token, password) ==
  IF token = Undefined \/ token # "T"
    THEN [ok |-> FALSE, reason |-> "invalid token"]
    ELSE IF configPassword # Undefined /\ password # configPassword
      THEN [ok |-> FALSE, reason |-> "invalid password"]
      ELSE [ok |-> TRUE, reason |-> Undefined]

Msg(type, n, arg) == [type |-> type, n |-> n, arg |-> arg]

NoInput == [kind |-> "none", token |-> Undefined, password |-> Undefined]

NewContext ==
  [authed |-> FALSE, clientId |-> NoId, runtime |-> 0,
   attachedSession |-> Undefined, baseSession |-> Undefined,
   terminalClients |-> {}]

NewDataContext ==
  [authed |-> FALSE, controlClientId |-> Undefined, controlContext |-> Undefined]

\* an optional boolean is a set: {} when undefined, else {TRUE} or {FALSE}
NoReconnectState ==
  [baseSession |-> Undefined, paneId |-> Undefined, zoomed |-> {}]

\* rememberReconnectState (lines 142-157): patch ?? existing
Patch(existing, patch) ==
  [baseSession |-> IF patch.baseSession # Undefined THEN patch.baseSession
                   ELSE existing.baseSession,
   paneId |-> IF patch.paneId # Undefined THEN patch.paneId ELSE existing.paneId,
   zoomed |-> IF patch.zoomed # {} THEN patch.zoomed ELSE existing.zoomed]

\* reconnectStateByClientId.get(clientId)
rsGet(rs, clientId) ==
  IF clientId \in ClientIds THEN rs[clientId] ELSE NoReconnectState

rememberReconnectState(rs, clientId, patch) ==
  IF clientId = NoId THEN rs
  ELSE [rs EXCEPT ![clientId] = Patch(@, patch)]

\* ----------------------------------------------------------------------
\*  The broker's state as one record, so that the synchronous stretches of
\*  a handler compose as functions from state to state.
\* ----------------------------------------------------------------------
Cur ==
  [csock |-> csock, cclose |-> cclose, controlClients |-> controlClients,
   context |-> context, runtimes |-> runtimes, ptys |-> ptys,
   handlers |-> handlers, shutdowns |-> shutdowns, out |-> out,
   authMark |-> authMark, lastIn |-> lastIn, rs |-> reconnectStateByClientId,
   sessions |-> sessions, windowZoomed |-> windowZoomed, dsock |-> dsock,
   dclose |-> dclose, dataContext |-> dataContext,
   gatewayCalls |-> gatewayCalls, ptyWrites |-> ptyWrites,
   chunksSent |-> chunksSent, emitted |-> emitted, dataIn |-> dataIn,
   dataFrames |-> dataFrames,
   started |-> started, stopPromise |-> stopPromise, listening |-> listening,
   stopCalls |-> stopCalls, stopShutdowns |-> stopShutdowns,
   stopRuns |-> stopRuns, cleanupErrors |-> cleanupErrors,
   ensured |-> ensured, attachCalls |-> attachCalls, restores |-> restores,
   handled |-> handled, forcePublishCalls |-> forcePublishCalls,
   failures |-> failures]

SetBroker(s) ==
  /\ csock' = s.csock
  /\ cclose' = s.cclose
  /\ controlClients' = s.controlClients
  /\ context' = s.context
  /\ runtimes' = s.runtimes
  /\ ptys' = s.ptys
  /\ handlers' = s.handlers
  /\ shutdowns' = s.shutdowns
  /\ out' = s.out
  /\ authMark' = s.authMark
  /\ lastIn' = s.lastIn
  /\ reconnectStateByClientId' = s.rs
  /\ sessions' = s.sessions
  /\ windowZoomed' = s.windowZoomed
  /\ dsock' = s.dsock
  /\ dclose' = s.dclose
  /\ dataContext' = s.dataContext
  /\ gatewayCalls' = s.gatewayCalls
  /\ ptyWrites' = s.ptyWrites
  /\ chunksSent' = s.chunksSent
  /\ emitted' = s.emitted
  /\ dataIn' = s.dataIn
  /\ dataFrames' = s.dataFrames
  /\ started' = s.started
  /\ stopPromise' = s.stopPromise
  /\ listening' = s.listening
  /\ stopCalls' = s.stopCalls
  /\ stopShutdowns' = s.stopShutdowns
  /\ stopRuns' = s.stopRuns
  /\ cleanupErrors' = s.cleanupErrors
  /\ ensured' = s.ensured
  /\ attachCalls' = s.attachCalls
  /\ restores' = s.restores
  /\ handled' = s.handled
  /\ forcePublishCalls' = s.forcePublishCalls
  /\ failures' = s.failures
  /\ UNCHANGED cli

Set(s) == SetBroker(s) /\ UNCHANGED monVars

\* ----------------------------------------------------------------------
\*  MultiplexerGateway: sessions maps each name to "absent", "own" (a
\*  session of its own) or the session it is grouped with.
\* ----------------------------------------------------------------------
AllNames == BaseNames \cup MobileNames

\* listSessions()
listSessions(S) == {n \in AllNames : S[n] # "absent"}

\* createSession(name): tmux refuses a duplicate name
createSessionOk(S, name) == S[name] = "absent"
createSession(S, name) == [S EXCEPT ![name] = "own"]

\* createGroupedSession(name, target): needs the target, refuses a duplicate
createGroupedSessionOk(S, name, target) ==
  S[name] = "absent" /\ S[target] # "absent"
createGroupedSession(S, name, target) == [S EXCEPT ![name] = target]

\* killSession(name): fails when there is no such session
killSessionOk(S, name) == S[name] # "absent"
killSession(S, name) == [S EXCEPT ![name] = "absent"]

\* The outcomes a gateway call or a PTY spawn can have: what the
\* multiplexer answers, or a failure of the call itself (timeout, spawn
\* error); the latter are bounded.
Outcomes(natural) ==
  {natural} \cup (IF natural /\ failures < limits.failures THEN {FALSE} ELSE {})
charge(s, natural, ok) ==
  [s EXCEPT !.failures = @ + (IF natural /\ ~ok THEN 1 ELSE 0)]

\* history: a gateway call issued by handler i of control socket c
call(s, c, i, op, target) ==
  [s EXCEPT !.gatewayCalls = @ \cup
     {[ctx |-> c, n |-> s.handlers[c][i].n, op |-> op, target |-> target,
       authed |-> s.context[c].authed, verified |-> s.handlers[c][i].verified]}]

\* ----------------------------------------------------------------------
\*  TerminalRuntime (terminal-runtime.ts)
\* ----------------------------------------------------------------------
\* lastCall is history: the last resize call made on a runtime on its own
NewRuntime ==
  [process |-> 0, session |-> Undefined, lastDimensions |-> DefaultDims,
   lastCall |-> <<>>]

\* attachToSession line 41: processRef.resize(lastDimensions)
SpawnDimsNoResize(rt) == DefaultDims
SpawnDims(rt) == rt.lastDimensions

\* attachToSession lines 23-25
AttachIsNoOpSameSession(rt, session) == rt.session = session
AttachIsNoOp(rt, session) == rt.session = session /\ rt.process # 0

\* process.kill()
KillProc(P, pid) == IF pid = 0 THEN P ELSE [P EXCEPT ![pid].status = "killed"]

\* attachToSession lines 22-44 on runtime r of context c
attachToSession(s, c, r, session) ==
  LET rt == s.runtimes[c][r] IN
  IF AttachIsNoOp(rt, session) THEN s
  ELSE [s EXCEPT
         !.ptys = Append(KillProc(@, rt.process),
                    [owner |-> c, rt |-> r, session |-> session,
                     dims |-> SpawnDims(rt), initial |-> SpawnDims(rt),
                     last |-> rt.lastDimensions, status |-> "alive"]),
         !.runtimes[c][r] = [rt EXCEPT !.session = session,
                                       !.process = Len(s.ptys) + 1]]

\* attachToSession when factory.spawnTmuxAttach throws (line 33)
attachToSessionThrows(s, c, r, session) ==
  LET rt == s.runtimes[c][r] IN
  [s EXCEPT !.ptys = KillProc(@, rt.process),
            !.runtimes[c][r] = [rt EXCEPT !.session = session, !.process = 0]]

\* write line 47: this.process?.write(data); history of what reached a PTY
write(s, c, r, src) ==
  LET pid == s.runtimes[c][r].process IN
  IF pid = 0 THEN s
  ELSE [s EXCEPT !.ptyWrites = @ \cup
          {[src |-> src, owner |-> s.ptys[pid].owner,
            ownerId |-> s.context[s.ptys[pid].owner].clientId,
            boundId |-> IF src \in Data THEN s.dataContext[src].controlClientId
                        ELSE s.context[src].clientId,
            bound |-> IF src \in Data THEN s.dataContext[src].controlContext
                      ELSE src,
            authed |-> IF src \in Data THEN s.dataContext[src].authed
                       ELSE s.context[src].authed]}]

\* A JavaScript number: a finite value held in tenths, or a value that is
\* not finite (the Infinity that JSON.parse gives for 1e999)
Num(tenths) == [finite |-> TRUE, tenths |-> tenths]
Whole(n) == Num(10 * n)
Infinity == [finite |-> FALSE, tenths |-> 0]
\* Number.isFinite(x)
isFinite(x) == x.finite
\* x < n for an integer n: false for Infinity
lessThan(x, n) == x.finite /\ x.tenths < 10 * n
\* Math.floor(x) of a finite x
floorTenths(x) == x.tenths
floor(x) == x.tenths \div 10

\* resize lines 50-56
resizeRejectedNotFinite(cols, rows) == ~isFinite(cols) \/ ~isFinite(rows)
resizeRejected(cols, rows) ==
  ~isFinite(cols) \/ ~isFinite(rows) \/ lessThan(cols, 2) \/ lessThan(rows, 2)
resize(s, c, r, cols, rows) ==
  LET pid == s.runtimes[c][r].process
      dims == <<floor(cols), floor(rows)>> IN
  IF resizeRejected(cols, rows) THEN s
  ELSE [s EXCEPT
         !.runtimes[c][r].lastDimensions = dims,
         !.ptys = IF pid = 0 THEN @ ELSE [@ EXCEPT ![pid].dims = dims]]

\* shutdown lines 66-71
shutdown(s, c, r) ==
  [s EXCEPT !.ptys = KillProc(@, s.runtimes[c][r].process),
            !.runtimes[c][r].process = 0]

\* ----------------------------------------------------------------------
\*  Broker helpers
\* ----------------------------------------------------------------------
\* sendJson (lines 76-80)
sendJson(s, c, payload) ==
  IF s.csock[c] = "open" THEN [s EXCEPT !.out[c] = Append(@, payload)] ELSE s

\* getControlContext (lines 195-196); Array.find takes the first registered
getControlContextAnyClient(s, clientId) ==
  {c \in s.controlClients :
     /\ s.context[c].authed
     /\ \A b \in CtxBefore(c) : ~(b \in s.controlClients /\ s.context[b].authed)}
getControlContext(s, clientId) ==
  {c \in s.controlClients :
     /\ s.context[c].authed /\ s.context[c].clientId = clientId
     /\ \A b \in CtxBefore(c) :
          ~(b \in s.controlClients /\ s.context[b].authed
            /\ s.context[b].clientId = clientId)}

\* control auth lines 450-452: the context to evict
existingContext(s, c, requestedClientId) ==
  {e \in s.controlClients :
     /\ e # c /\ s.context[e].authed /\ s.context[e].clientId = requestedClientId
     /\ \A b \in CtxBefore(e) :
          ~(b \in s.controlClients /\ b # c /\ s.context[b].authed
            /\ s.context[b].clientId = requestedClientId)}

\* shutdownControlContext lines 400-407: killSession returned or threw; the
\* catch block logs, and attachedSession is cleared either way
cleanupTellsClient(s, e, session, origin, ok) ==
  LET s1 == [s EXCEPT !.context[e].attachedSession = Undefined] IN
  IF ok THEN s1
  ELSE sendJson([s1 EXCEPT !.cleanupErrors = @ \cup
                    {[ctx |-> e, session |-> session, origin |-> origin]}],
                e, Msg("error", 0, "cleanup failed"))
cleanup(s, e, session, origin, ok) ==
  [s EXCEPT !.context[e].attachedSession = Undefined,
            !.cleanupErrors =
               IF ok THEN @
               ELSE @ \cup {[ctx |-> e, session |-> session, origin |-> origin]}]

\* shutdownControlContext lines 392-399, up to the await of killSession
shutdownSync(s, e) ==
  LET r == s.context[e].runtime
      s1 == [s EXCEPT
               !.dsock = [d \in Data |->
                 IF d \in s.context[e].terminalClients /\ s.dsock[d] = "open"
                   THEN "closing" ELSE s.dsock[d]],
               !.context[e].terminalClients = {},
               !.context[e].runtime = 0] IN
  IF r = 0 THEN s1 ELSE shutdown(s1, e, r)

NewHandler(n, type) ==
  [n |-> n, type |-> type, pc |-> "fp", req |-> Undefined, victim |-> Undefined,
   base |-> Undefined, mobile |-> Undefined, rt |-> 0, err |-> Undefined,
   pane |-> Undefined, zoom |-> {}, verified |-> FALSE, threw |-> FALSE]

RemoveAt(seq, i) == [k \in 1..(Len(seq) - 1) |-> IF k < i THEN seq[k] ELSE seq[k + 1]]

setPc(s, c, i, pc) == [s EXCEPT !.handlers[c][i].pc = pc]

\* ----------------------------------------------------------------------
\*  Control-message handlers, stretch by stretch.  A handler record holds
\*  the locals that live across awaits; pc names the call it awaits.
\* ----------------------------------------------------------------------
PatchOf(base, pane, zoom) == [baseSession |-> base, paneId |-> pane, zoomed |-> zoom]

\* A throw inside the handler.  Initial attach (lines 476-483): the error
\* is sent at once, then forcePublish.  Mutation (lines 487-498): the
\* finally block awaits forcePublish first, the catch sends the error after.
fail(s, c, i, message) ==
  LET h == s.handlers[c][i] IN
  IF h.type = "auth"
    THEN [sendJson(s, c, Msg("error", h.n, message)) EXCEPT
            !.handlers[c][i].pc = "fp", !.handlers[c][i].threw = TRUE]
    ELSE [s EXCEPT !.handlers[c][i].pc = "fp", !.handlers[c][i].err = message,
                   !.handlers[c][i].threw = TRUE]

\* attachControlToBaseSession lines 255-257: getOrCreateRuntime, the mobile
\* session name, and the call of listSessions
startAttach(s, c, i, baseSession) ==
  LET fresh == s.context[c].runtime = 0
      r == IF fresh THEN Len(s.runtimes[c]) + 1 ELSE s.context[c].runtime
      s1 == IF fresh
              THEN [s EXCEPT !.runtimes[c] = Append(@, NewRuntime),
                             !.context[c].runtime = r]
              ELSE s
      s2 == [s1 EXCEPT !.attachCalls = @ \cup
                          {[ctx |-> c, n |-> s.handlers[c][i].n, base |-> baseSession]},
                       !.handlers[c][i].pc = "attList",
                       !.handlers[c][i].base = baseSession,
                       !.handlers[c][i].mobile =
                          buildMobileSessionName(s.context[c].clientId),
                       !.handlers[c][i].rt = r] IN
  call(s2, c, i, "listSessions", Undefined)

\* attachControlToBaseSession line 273, then the handler's forcePublish
attached(s, c, i) ==
  LET h == s.handlers[c][i] IN
  setPc(sendJson(s, c, Msg("attached", h.n, h.mobile)), c, i, "fp")

\* tryRestoreClientView lines 219-230, up to the await of selectPane
tryRestoreClientView(s, c, i) ==
  LET state == rsGet(s.rs, s.context[c].clientId) IN
  IF s.context[c].attachedSession = Undefined \/ state.paneId = Undefined
    THEN attached(s, c, i)
    ELSE call([s EXCEPT !.handlers[c][i].pc = "resSelect",
                        !.handlers[c][i].pane = state.paneId,
                        !.handlers[c][i].zoom = state.zoomed],
              c, i, "selectPane", state.paneId)

\* attachControlToBaseSession lines 268-272
finishAttach(s, c, i, spawnOk) ==
  LET h == s.handlers[c][i]
      s1 == [s EXCEPT !.context[c].baseSession = h.base,
                      !.context[c].attachedSession = h.mobile,
                      !.rs = rememberReconnectState(@, s.context[c].clientId,
                               PatchOf(h.base, Undefined, {}))] IN
  IF spawnOk
    THEN tryRestoreClientView(attachToSession(s1, c, h.rt, h.mobile), c, i)
    ELSE fail(attachToSessionThrows(s1, c, h.rt, h.mobile), c, i, "spawn failed")

\* control auth lines 465-475: adopt the client id, become authed, send
\* auth_ok, and enter ensureAttachedSession up to its listSessions call
AuthOkNotSent(s, c, i) == s
AuthOk(s, c, i) ==
  sendJson(s, c, Msg("auth_ok", s.handlers[c][i].n, s.context[c].clientId))

\* line 466: reconnectStateByClientId.get(context.clientId)?.baseSession
rememberedBaseSession(s, id) == rsGet(s.rs, id).baseSession

\* history: the clients whose control socket has closed, with the base
\* session each was attached to
closedClients(s) ==
  {[id |-> s.context[b].clientId, base |-> s.context[b].baseSession] :
     b \in {b \in Ctx : s.csock[b] = "closed" /\ s.context[b].baseSession # Undefined}}

authComplete(s, c, i) ==
  LET h == s.handlers[c][i]
      id == IF h.req # Undefined THEN h.req ELSE randomToken(c)
      s1 == [s EXCEPT !.context[c].clientId = id,
                      !.context[c].baseSession = rememberedBaseSession(s, id),
                      !.context[c].authed = TRUE,
                      !.authMark[c] = Len(s.out[c]),
                      !.handled = @ \cup {[ctx |-> c, n |-> h.n, type |-> h.type,
                                           after |-> closedClients(s)]}] IN
  call(setPc(AuthOk(s1, c, i), c, i, "ensList"), c, i, "listSessions", Undefined)

\* ----------------------------------------------------------------------
\*  Control socket: connection, messages (lines 410-507)
\* ----------------------------------------------------------------------
RecvStep(c, s) ==
  /\ Set(s)
  /\ controlMsgs' = controlMsgs + 1
  /\ arrivals' = [arrivals EXCEPT ![c] = @ + 1]
  /\ UNCHANGED <<configPassword, limits, dataMsgs, events>>

Step(s) ==
  /\ Set(s)
  /\ UNCHANGED <<configPassword, limits, controlMsgs, arrivals, dataMsgs, events>>

\* controlWss.on("connection") lines 410-418
ControlConnect(c) ==
  /\ c \in limits.ctx
  /\ listening
  /\ csock[c] = "none"
  /\ \A b \in CtxBefore(c) : csock[b] # "none"
  /\ Step([Cur EXCEPT !.csock[c] = "open", !.controlClients = @ \cup {c}])

\* A frame reaches the message handler: the socket is open, or the broker
\* has called close() and the closing handshake is still pending (the
\* handler itself does not look at readyState).
Receiving(c) == csock[c] \in {"open", "closing"} /\ controlMsgs < limits.controlMsgs

\* line 429: the auth gate
NeedsAuthNever(c) == FALSE
NeedsAuth(c) == ~context[c].authed


\* history: what an unauthenticated socket sent last
received(s, c, kind, token, password) ==
  IF s.context[c].authed THEN s
  ELSE [s EXCEPT !.lastIn[c] = [kind |-> kind, token |-> token,
                                password |-> password]]

\* lines 421-425: the frame does not parse to an object with a string type
RecvInvalid(c) ==
  /\ Receiving(c)
  /\ RecvStep(c, sendJson(received(Cur, c, "invalid", Undefined, Undefined), c,
       Msg("error", arrivals[c] + 1, "invalid message format")))

MutationTypes == {"select_session", "new_session", "new_window", "select_window",
                  "kill_window", "select_pane", "zoom_pane", "capture_scrollback",
                  "send_compose"}

\* runControlMutation lines 333-350: the three window commands and the
\* gateway call each makes, on the session read at line 324; session stands
\* for a session name the client put in the message
WindowTypes == {"new_window", "select_window", "kill_window"}
windowOp(type) ==
  CASE type = "new_window" -> "newWindow"
    [] type = "select_window" -> "selectWindow"
    [] type = "kill_window" -> "killWindow"
windowTargetFromMessage(attachedSession, session) == session
windowTarget(attachedSession, session) == attachedSession

\* lines 431 and 441-444: auth_error is sent and the handler returns
authErrorThenClose(s, c, n, reason) ==
  LET s1 == sendJson(s, c, Msg("auth_error", n, reason)) IN
  IF s1.csock[c] = "open"
    THEN [s1 EXCEPT !.csock[c] = "closing", !.cclose[c] = "4001 unauthorized"]
    ELSE s1
authError(s, c, n, reason) == sendJson(s, c, Msg("auth_error", n, reason))

\* lines 430-433
RecvBeforeAuth(c, type) ==
  /\ Receiving(c)
  /\ NeedsAuth(c)
  /\ type # "auth"
  /\ RecvStep(c, authError(received(Cur, c, type, Undefined, Undefined), c,
                           arrivals[c] + 1, "auth required"))

\* lines 435-446
RecvAuthRejected(c, token, password) ==
  /\ Receiving(c)
  /\ NeedsAuth(c)
  /\ ~verify(token, password).ok
  /\ RecvStep(c, authError(received(Cur, c, "auth", token, password), c,
                           arrivals[c] + 1, verify(token, password).reason))

At(c, i, pc) == i \in DOMAIN handlers[c] /\ handlers[c][i].pc = pc

\* lines 456-462, then 465-475: the evicted socket is closed with code 4000
\* and the new context becomes authed
evictClose(s, c, i, e) ==
  authComplete(IF s.csock[e] = "open"
                 THEN [s EXCEPT !.csock[e] = "closing",
                                !.cclose[e] = "4000 reconnected"]
                 ELSE s,
               c, i)

\* lines 435-475: a verified auth.  With a context to evict that has an
\* attached session the handler suspends on killSession; with none,
\* shutdownControlContext returns without I/O and the handler runs on
\* before any other event is dispatched.
RecvAuth(c, token, password, rawClientId) ==
  /\ Receiving(c)
  /\ NeedsAuth(c)
  /\ verify(token, password).ok
  /\ LET requestedClientId == normalizeClientId(rawClientId)
         i == Len(handlers[c]) + 1
         h == [NewHandler(arrivals[c] + 1, "auth") EXCEPT
                 !.req = requestedClientId, !.verified = TRUE]
         s0 == [received(Cur, c, "auth", token, password) EXCEPT
                  !.handlers[c] = Append(@, h)]
         found == IF requestedClientId = Undefined THEN {}
                  ELSE existingContext(Cur, c, requestedClientId)
     IN IF found = {}
          THEN RecvStep(c, authComplete(s0, c, i))
          ELSE LET e == CHOOSE e \in found : TRUE
                   s1 == shutdownSync([s0 EXCEPT !.controlClients = @ \ {e}], e)
                   session == context[e].attachedSession
               IN IF session # Undefined
                    THEN RecvStep(c, call(
                           [s1 EXCEPT !.handlers[c][i].pc = "evictKill",
                                      !.handlers[c][i].victim = e,
                                      !.handlers[c][i].mobile = session],
                           c, i, "killSession", session))
                    ELSE RecvStep(c, evictClose(s1, c, i, e))

\* lines 400-407 for the evicted context: killSession returned
EvictDone(c, i) ==
  /\ At(c, i, "evictKill")
  /\ LET h == handlers[c][i]
         natural == killSessionOk(sessions, h.mobile)
     IN \E ok \in Outcomes(natural) :
          Step(evictClose(
                 cleanup([charge(Cur, natural, ok) EXCEPT
                            !.sessions = IF ok THEN killSession(@, h.mobile) ELSE @],
                         h.victim, h.mobile, "evict", ok),
                 c, i, h.victim))

\* runControlMutation (lines 320-389), to its first await
RecvMutation(c, type, session, paneId) ==
  /\ Receiving(c)
  /\ ~NeedsAuth(c)
  /\ type \in limits.types
  /\ LET i == Len(handlers[c]) + 1
         h == [NewHandler(arrivals[c] + 1, type) EXCEPT !.pane = paneId]
         s0 == [Cur EXCEPT !.handlers[c] = Append(@, h),
                           !.handled = @ \cup {[ctx |-> c, n |-> h.n, type |-> type,
                                                after |-> {}]}]
         attachedSession == context[c].attachedSession
     IN CASE type = "select_session" -> RecvStep(c, startAttach(s0, c, i, session))
          [] type = "new_session" ->
               RecvStep(c, call([s0 EXCEPT !.handlers[c][i].pc = "nsCreate",
                                           !.handlers[c][i].base = session],
                                c, i, "createSession", session))
          [] type \in WindowTypes ->
               IF attachedSession = Undefined
                 THEN RecvStep(c, fail(s0, c, i, "no attached session"))
                 ELSE RecvStep(c, call(setPc(s0, c, i, "gw"), c, i, windowOp(type),
                                       windowTarget(attachedSession, session)))
          [] type \in {"select_pane", "zoom_pane", "capture_scrollback"} ->
               RecvStep(c, call(setPc(s0, c, i, "gw"), c, i, type, paneId))
          [] type = "send_compose" ->
               RecvStep(c, IF context[c].runtime = 0 THEN s0
                           ELSE write(s0, c, context[c].runtime, c))
          [] OTHER -> RecvStep(c, s0)     \* case "auth": return

\* ----------------------------------------------------------------------
\*  Handlers resuming from their awaits
\* ----------------------------------------------------------------------

\* the spawn inside runtime.attachToSession may throw, unless it is a no-op
SpawnOutcomes(c, i) ==
  LET h == handlers[c][i] IN
  IF AttachIsNoOp(runtimes[c][h.rt], h.mobile) THEN {TRUE} ELSE Outcomes(TRUE)

\* ensureAttachedSession lines 286-318: listSessions returned
EnsListDone(c, i) ==
  /\ At(c, i, "ensList")
  /\ \E ok \in Outcomes(TRUE) :
       LET found == {n \in listSessions(sessions) : ~isManagedMobileSession(n)}
           preferred == context[c].baseSession
           s0 == IF ~ok THEN charge(Cur, TRUE, ok)
                 ELSE [charge(Cur, TRUE, ok) EXCEPT !.ensured = @ \cup
                         {[ctx |-> c, n |-> handlers[c][i].n,
                           listed |-> listSessions(sessions),
                           preferred |-> preferred]}]
       IN IF ~ok THEN Step(fail(s0, c, i, "list-sessions failed"))
          ELSE IF preferred # Undefined /\ preferred \in found
            THEN Step(startAttach(s0, c, i, preferred))
          ELSE IF found = {}
            THEN Step(call(setPc(s0, c, i, "ensCreate"), c, i, "createSession",
                           defaultSession))
          ELSE IF Cardinality(found) = 1
            THEN Step(startAttach(s0, c, i, CHOOSE n \in found : TRUE))
          ELSE Step(setPc(sendJson(s0, c,
                      Msg("session_picker", handlers[c][i].n, found)), c, i, "fp"))

\* createSession returned: ensureAttachedSession lines 304-306 (default
\* session) and runControlMutation lines 330-331 (new_session)
CreateDone(c, i) ==
  /\ i \in DOMAIN handlers[c]
  /\ handlers[c][i].pc \in {"ensCreate", "nsCreate"}
  /\ LET name == IF handlers[c][i].pc = "ensCreate" THEN defaultSession
                 ELSE handlers[c][i].base
         natural == createSessionOk(sessions, name)
     IN \E ok \in Outcomes(natural) :
          LET s0 == charge(Cur, natural, ok) IN
          IF ok
            THEN Step(startAttach([s0 EXCEPT !.sessions = createSession(@, name)],
                                  c, i, name))
            ELSE Step(fail(s0, c, i, "create-session failed"))

\* attachControlToBaseSession lines 257-266: listSessions returned
AttListDone(c, i) ==
  /\ At(c, i, "attList")
  /\ \E ok \in Outcomes(TRUE) : \E spawnOk \in SpawnOutcomes(c, i) :
       LET h == handlers[c][i]
           s0 == charge(Cur, TRUE, ok)
           hasMobileSession == h.mobile \in listSessions(sessions)
           needsRecreate == /\ hasMobileSession
                            /\ context[c].baseSession # Undefined
                            /\ context[c].baseSession # h.base
       IN IF ~ok THEN Step(fail(s0, c, i, "list-sessions failed"))
          ELSE IF needsRecreate
            THEN Step(call(setPc(s0, c, i, "attKill"), c, i, "killSession", h.mobile))
          ELSE IF ~hasMobileSession
            THEN Step(call(setPc(s0, c, i, "attCreate"), c, i,
                           "createGroupedSession", h.mobile))
          ELSE Step(finishAttach(charge(s0, TRUE, spawnOk), c, i, spawnOk))

\* attachControlToBaseSession lines 262-266: killSession returned
AttKillDone(c, i) ==
  /\ At(c, i, "attKill")
  /\ LET h == handlers[c][i]
         natural == killSessionOk(sessions, h.mobile)
     IN \E ok \in Outcomes(natural) :
          LET s0 == charge(Cur, natural, ok) IN
          IF ok
            THEN Step(call(setPc([s0 EXCEPT !.sessions = killSession(@, h.mobile)],
                                 c, i, "attCreate"),
                           c, i, "createGroupedSession", h.mobile))
            ELSE Step(fail(s0, c, i, "kill-session failed"))

\* attachControlToBaseSession lines 265-273: createGroupedSession returned
AttCreateDone(c, i) ==
  /\ At(c, i, "attCreate")
  /\ LET h == handlers[c][i]
         natural == createGroupedSessionOk(sessions, h.mobile, h.base)
     IN \E ok \in Outcomes(natural) : \E spawnOk \in SpawnOutcomes(c, i) :
          LET s0 == charge(Cur, natural, ok) IN
          IF ok
            THEN Step(finishAttach(
                   charge([s0 EXCEPT !.sessions =
                             createGroupedSession(@, h.mobile, h.base)],
                          TRUE, spawnOk),
                   c, i, spawnOk))
            ELSE Step(fail(s0, c, i, "new-session failed"))

\* tryRestoreClientView lines 229-241: selectPane returned
restoreStep(s, c, i, stage, ok) ==
  LET h == s.handlers[c][i] IN
  [s EXCEPT !.restores = Append(@,
     [ctx |-> c, n |-> h.n, stage |-> stage, ok |-> ok, pane |-> h.pane,
      zoomed |-> s.windowZoomed, remembered |-> h.zoom])]

ResSelectDone(c, i) ==
  /\ At(c, i, "resSelect")
  /\ \E ok \in Outcomes(TRUE) :
       LET h == handlers[c][i]
           s0 == restoreStep(charge(Cur, TRUE, ok), c, i, "selectPane", ok)
       IN IF ~ok \/ h.zoom = {}
            THEN Step(attached(s0, c, i))
            ELSE Step(call(setPc(s0, c, i, "resList"), c, i, "listWindows",
                           context[c].attachedSession))

\* line 243: activeWindow.zoomed !== reconnectState.zoomed
zoomAlways(actual, remembered) == TRUE
zoomDiffers(actual, remembered) == {actual} # remembered

\* tryRestoreClientView lines 241-248: listWindows returned
ResListDone(c, i) ==
  /\ At(c, i, "resList")
  /\ \E ok \in Outcomes(TRUE) :
       LET h == handlers[c][i]
           s0 == restoreStep(charge(Cur, TRUE, ok), c, i, "listWindows", ok)
       IN IF ok /\ zoomDiffers(windowZoomed, h.zoom)
            THEN Step(call(setPc(restoreStep(s0, c, i, "zoomPane", TRUE),
                                 c, i, "resZoom"),
                           c, i, "zoomPane", h.pane))
            ELSE Step(attached(s0, c, i))

\* tryRestoreClientView lines 244-248: zoomPane returned
ResZoomDone(c, i) ==
  /\ At(c, i, "resZoom")
  /\ \E ok \in Outcomes(TRUE) :
       LET s0 == charge(Cur, TRUE, ok) IN
       Step(attached([s0 EXCEPT !.windowZoomed = IF ok THEN ~@ ELSE @], c, i))

\* runControlMutation: the single gateway call of new_window (337),
\* select_pane (352-353), zoom_pane (362-366), capture_scrollback (370-376)
GatewayDone(c, i) ==
  /\ At(c, i, "gw")
  /\ \E ok \in Outcomes(TRUE) :
       LET h == handlers[c][i]
           id == context[c].clientId
           s0 == setPc(charge(Cur, TRUE, ok), c, i, "fp")
       IN IF ~ok THEN Step(fail(s0, c, i, "command failed"))
          ELSE CASE h.type = "select_pane" ->
                 Step([s0 EXCEPT !.rs = rememberReconnectState(@, id,
                                          PatchOf(Undefined, h.pane, {}))])
            [] h.type = "zoom_pane" ->
                 Step([s0 EXCEPT
                         !.windowZoomed = ~@,
                         !.rs = rememberReconnectState(@, id,
                                  PatchOf(Undefined, h.pane,
                                          {~(TRUE \in rsGet(s0.rs, id).zoomed)}))])
            [] h.type = "capture_scrollback" ->
                 Step(sendJson(s0, c, Msg("scrollback", h.n, h.pane)))
            [] OTHER -> Step(s0)

\* await monitor?.forcePublish(), lines 484 and 490
forcePublishUnlessThrew(s, c, i) ==
  LET h == s.handlers[c][i] IN
  IF h.threw THEN s
  ELSE [s EXCEPT !.forcePublishCalls = @ \cup
                    {[ctx |-> c, n |-> h.n, threw |-> h.threw]}]
forcePublish(s, c, i) ==
  LET h == s.handlers[c][i] IN
  [s EXCEPT !.forcePublishCalls = @ \cup
               {[ctx |-> c, n |-> h.n, threw |-> h.threw]}]

\* monitor.forcePublish() returned (lines 483-484, 489-498): the handler
\* ends; a mutation that threw sends its error now
ForcePublishDone(c, i) ==
  /\ At(c, i, "fp")
  /\ LET h == handlers[c][i]
         s0 == [forcePublish(Cur, c, i) EXCEPT !.handlers[c] = RemoveAt(@, i)]
     IN IF h.err # Undefined
          THEN Step(sendJson(s0, c, Msg("error", h.n, h.err)))
          ELSE Step(s0)

\* socket.on("close") lines 501-506: the client closed the socket, or the
\* closing handshake the broker began has completed
ControlClose(c) ==
  /\ csock[c] \in {"open", "closing"}
  /\ LET session == context[c].attachedSession
         s0 == [Cur EXCEPT
                  !.csock[c] = "closed",
                  !.rs = rememberReconnectState(@, context[c].clientId,
                           PatchOf(context[c].baseSession, Undefined, {})),
                  !.controlClients = @ \ {c}]
         s1 == shutdownSync(s0, c)
     IN IF session = Undefined THEN Step(s1)
        ELSE Step([s1 EXCEPT
               !.shutdowns = @ \cup {[ctx |-> c, session |-> session]},
               !.gatewayCalls = @ \cup
                  {[ctx |-> c, n |-> 0, op |-> "killSession", target |-> session,
                    authed |-> context[c].authed, verified |-> FALSE]}])

\* shutdownControlContext lines 400-407: killSession returned
ShutdownKillDone(t) ==
  LET natural == killSessionOk(sessions, t.session) IN
  \E ok \in Outcomes(natural) :
    Step(cleanup([charge(Cur, natural, ok) EXCEPT
                    !.shutdowns = @ \ {t},
                    !.sessions = IF ok THEN killSession(@, t.session) ELSE @],
                 t.ctx, t.session, "close", ok))

\* broadcastState (lines 185-193) with updateReconnectStateFromSnapshot
\* (lines 159-183): the monitor's onUpdate.  The snapshot may or may not
\* list a context's mobile session, with its active pane and zoom flag.
BroadcastState ==
  /\ events < limits.events
  /\ \E listed \in SUBSET {c \in controlClients :
                            context[c].authed /\ context[c].attachedSession # Undefined} :
     \E zoomed \in BOOLEAN :
       LET to == {c \in controlClients : context[c].authed /\ csock[c] = "open"}
       IN /\ Set([Cur EXCEPT
                 !.out = [c \in Ctx |->
                            IF c \in to THEN Append(out[c], Msg("tmux_state", 0, ""))
                            ELSE out[c]],
                 !.rs = [id \in ClientIds |->
                           IF \E c \in listed : context[c].clientId = id
                             THEN LET c == CHOOSE c \in listed : context[c].clientId = id
                                  IN Patch(@[id], PatchOf(context[c].baseSession,
                                                          "%5", {zoomed}))
                             ELSE @[id]]])
          /\ events' = events + 1
          /\ UNCHANGED <<configPassword, limits, controlMsgs, arrivals, dataMsgs>>

\* ----------------------------------------------------------------------
\*  PTY events (getOrCreateRuntime lines 204-214, attachToSession 34-40)
\* ----------------------------------------------------------------------
\* terminalClient.socket.send(chunk), line 207
SendChunkTwice(sofar, sent, chunk) ==
  IF sent THEN Append(Append(sofar, chunk), chunk) ELSE sofar
SendChunk(sofar, sent, chunk) ==
  IF sent THEN Append(sofar, chunk) ELSE sofar

\* runtime.on("data"): the chunk goes to the owning context's data sockets
PtyData(p) ==
  /\ events < limits.events
  /\ ptys[p].status = "alive"
  /\ LET c == ptys[p].owner
         to == {d \in context[c].terminalClients :
                  dataContext[d].authed /\ dsock[d] = "open"}
     IN Set([Cur EXCEPT
               !.chunksSent = @ \cup
                 {[from |-> c, fromId |-> context[c].clientId, to |-> d,
                   bound |-> dataContext[d].controlContext,
                   boundId |-> dataContext[d].controlClientId] : d \in to},
               !.emitted = @ \cup
                 {[chunk |-> events + 1, owner |-> c,
                   open |-> {d \in Data : /\ dataContext[d].authed
                                          /\ dataContext[d].controlContext = c
                                          /\ dsock[d] = "open"}]},
               !.dataIn = [d \in Data |->
                            SendChunk(dataIn[d], d \in to, events + 1)]])
  /\ events' = events + 1
  /\ UNCHANGED <<configPassword, limits, controlMsgs, arrivals, dataMsgs>>

\* terminal-runtime.ts lines 37-39: if (this.process === processRef)
\* this.process = undefined
\* the PTY process exits: the runtime forgets it and emits "exit", the
\* owning control socket gets info "tmux client exited"
forgetNever(process, p) == process
forget(process, p) == IF process = p THEN 0 ELSE process
PtyExit(p) ==
  /\ events < limits.events
  /\ ptys[p].status = "alive"
  /\ LET c == ptys[p].owner
         r == ptys[p].rt
         s0 == [Cur EXCEPT !.ptys[p].status = "exited",
                           !.runtimes[c][r].process = forget(@, p)]
     IN Set(sendJson(s0, c, Msg("info", 0, "tmux client exited")))
  /\ events' = events + 1
  /\ UNCHANGED <<configPassword, limits, controlMsgs, arrivals, dataMsgs>>

\* ----------------------------------------------------------------------
\*  A TerminalRuntime on its own (terminal-runtime.ts): constructed with a
\*  PTY factory, its methods called by any caller in any order.  It is
\*  runtime 1 of the slot c1, whose control socket never connects.
\* ----------------------------------------------------------------------
RuntimeCall(s) ==
  /\ events < limits.events
  /\ runtimes["c1"] # <<>>
  /\ Set(s)
  /\ events' = events + 1
  /\ UNCHANGED <<configPassword, limits, controlMsgs, arrivals, dataMsgs>>

\* new TerminalRuntime(factory), lines 10-16
RuntimeNew ==
  /\ runtimes["c1"] = <<>>
  /\ Step([Cur EXCEPT !.runtimes["c1"] = <<NewRuntime>>])

\* attachToSession(session), lines 22-44; the spawn may throw
RuntimeAttach(session, spawnOk) ==
  /\ runtimes["c1"] # <<>>
  /\ spawnOk \in (IF AttachIsNoOp(runtimes["c1"][1], session) THEN {TRUE}
                                                              ELSE Outcomes(TRUE))
  /\ RuntimeCall(IF spawnOk
                   THEN attachToSession(Cur, "c1", 1, session)
                   ELSE attachToSessionThrows(charge(Cur, TRUE, FALSE), "c1", 1, session))

\* resize(cols, rows), lines 50-56
RuntimeResize(cols, rows) ==
  RuntimeCall([resize(Cur, "c1", 1, cols, rows) EXCEPT
                 !.runtimes["c1"][1].lastCall =
                   <<[cols |-> cols, rows |-> rows, spawned |-> Len(ptys),
                      before |-> runtimes["c1"][1].lastDimensions]>>])

\* shutdown(), lines 66-71
RuntimeShutdown == RuntimeCall(shutdown(Cur, "c1", 1))

\* ----------------------------------------------------------------------
\*  stop() (lines 638-671).  The state after construction and start():
\*  started is true and the HTTP server listens.
\* ----------------------------------------------------------------------

\* lines 642-645: a shutdown is in progress
StopInFlightNever == FALSE
StopInFlight == stopPromise # "null"

\* line 650: shutdownControlContext(context) for each registered context, up
\* to its await of killSession
RECURSIVE shutdownAll(_, _)
shutdownAll(s, todo) ==
  IF todo = {} THEN s
  ELSE LET e == CHOOSE e \in todo : TRUE
           session == s.context[e].attachedSession
           s1 == shutdownSync(s, e)
           s2 == IF session = Undefined THEN s1
                 ELSE [s1 EXCEPT
                         !.stopShutdowns = @ \cup {[ctx |-> e, session |-> session]},
                         !.gatewayCalls = @ \cup
                            {[ctx |-> e, n |-> 0, op |-> "killSession",
                              target |-> session, authed |-> s.context[e].authed,
                              verified |-> FALSE]}]
       IN shutdownAll(s2, todo \ {e})

\* lines 664-669: stopPromise settled; the caller that began the shutdown
\* runs its finally block, then the callers that awaited it resume
settle(s, how) ==
  [s EXCEPT !.started = FALSE,
            !.stopPromise = "null",
            !.stopCalls = [k \in StopCallers |->
                             IF s.stopCalls[k] \in {"own", "join"} THEN how
                             ELSE s.stopCalls[k]]]

\* lines 651-661: Promise.all resolved; both WebSocket servers are closed
\* and server.close() is called, which reports an error at once when the
\* server is not listening
closeServers(s) ==
  IF s.listening
    THEN [s EXCEPT !.listening = FALSE, !.stopPromise = "closing"]
    ELSE settle(s, "threw")

\* a call of stop(), to its first await with I/O
StopCall(k) ==
  /\ k <= limits.stops
  /\ stopCalls[k] = "idle"
  /\ IF ~started
       THEN Step([Cur EXCEPT !.stopCalls[k] = "noop"])
       ELSE IF StopInFlight
         THEN Step([Cur EXCEPT !.stopCalls[k] = "join"])
         ELSE LET s0 == [Cur EXCEPT !.stopRuns = @ + 1,
                                    !.stopPromise = "shutdown",
                                    !.stopCalls[k] = "own"]
                  s1 == shutdownAll(s0, controlClients)
              IN /\ SetBroker(IF s1.stopShutdowns = {} THEN closeServers(s1) ELSE s1)
                 /\ running' = FALSE
                 /\ timerArmed' = FALSE
                 /\ UNCHANGED <<forceGeneration, lastSerializedState, strayTimers,
                                builds, clock, tmuxState, mutations, startCalled,
                                delivered, discarded, suppressed, onErrorCalls, failedBuilds>>
                 /\ UNCHANGED <<configPassword, limits, controlMsgs, arrivals,
                                dataMsgs, events>>

\* shutdownControlContext lines 400-407, called by stop(): killSession
\* returned or threw
StopKillDone(t) ==
  LET natural == killSessionOk(sessions, t.session) IN
  \E ok \in Outcomes(natural) :
    LET s0 == cleanup([charge(Cur, natural, ok) EXCEPT
                         !.stopShutdowns = @ \ {t},
                         !.sessions = IF ok THEN killSession(@, t.session) ELSE @],
                      t.ctx, t.session, "stop", ok)
    IN Step(IF s0.stopShutdowns = {} THEN closeServers(s0) ELSE s0)

\* server.close's callback (lines 654-660): every connection has ended
ServerClosed ==
  /\ stopPromise = "closing"
  /\ \A c \in Ctx : csock[c] \notin {"open", "closing"}
  /\ \A d \in Data : dsock[d] \notin {"open", "closing"}
  /\ Step(settle(Cur, "done"))

\* ----------------------------------------------------------------------
\*  Data socket (lines 509-586)
\* ----------------------------------------------------------------------
DataStep(s, n) ==
  /\ Set(s)
  /\ dataMsgs' = dataMsgs + n
  /\ UNCHANGED <<configPassword, limits, controlMsgs, arrivals, events>>

\* terminalWss.on("connection") lines 509-512
DataConnect(d) ==
  /\ d \in limits.data
  /\ listening
  /\ dsock[d] = "none"
  /\ \A b \in DataBefore(d) : dsock[b] # "none"
  /\ DataStep([Cur EXCEPT !.dsock[d] = "open"], 0)

\* A frame reaches the message handler (open, or close() called and the
\* closing handshake pending)
DataReceiving(d) == dsock[d] \in {"open", "closing"} /\ dataMsgs < limits.dataMsgs

\* socket.close(4001, reason): no effect unless the socket is open
closeData(s, d, reason) ==
  IF s.dsock[d] = "open"
    THEN [s EXCEPT !.dsock[d] = "closing", !.dclose[d] = reason]
    ELSE s

\* ----------------------------------------------------------------------
\*  Frames.  A binary frame is a sequence of bytes.  A text frame is a
\*  sequence of tokens: single characters, and the members "key": value of
\*  a JSON object, whose value is a number (int) or a string.
\* ----------------------------------------------------------------------
Tok(ch) == [tok |-> ch, key |-> "", num |-> FALSE, str |-> "", int |-> 0]
StrMember(key, str) == [tok |-> "member", key |-> key, num |-> FALSE, str |-> str, int |-> 0]
NumMember(key, int) == [tok |-> "member", key |-> key, num |-> TRUE, str |-> "", int |-> int]
NoMember == [tok |-> "none", key |-> "", num |-> FALSE, str |-> "", int |-> 0]

BinaryFrame(bytes) == [binary |-> TRUE, bytes |-> bytes, text |-> <<>>]
TextFrame(text) == [binary |-> FALSE, bytes |-> <<>>, text |-> text]
ResizeText(cols, rows) ==
  <<Tok("{"), StrMember("type", "resize"), NumMember("cols", cols),
    NumMember("rows", rows), Tok("}")>>

\* Buffer.toString() (line 556): UTF-8 decoding into code points; a byte
\* that begins no valid sequence becomes U+FFFD.  One- and two-byte
\* sequences are decoded, everything else is replaced.
ReplacementChar == 65533
RECURSIVE toString(_)
toString(bytes) ==
  IF bytes = <<>> THEN <<>>
  ELSE IF bytes[1] < 128 THEN <<bytes[1]>> \o toString(Tail(bytes))
  ELSE IF /\ bytes[1] \in 194..223 /\ Len(bytes) >= 2 /\ bytes[2] \in 128..191
    THEN <<(bytes[1] - 192) * 64 + (bytes[2] - 128)>> \o toString(Tail(Tail(bytes)))
  ELSE <<ReplacementChar>> \o toString(Tail(bytes))

\* the bytes a PTY receives for a string written to it (UTF-8 encoding)
RECURSIVE utf8Bytes(_)
utf8Bytes(codePoints) ==
  IF codePoints = <<>> THEN <<>>
  ELSE LET cp == codePoints[1]
           head == IF cp < 128 THEN <<cp>>
                   ELSE IF cp < 2048 THEN <<192 + (cp \div 64), 128 + (cp % 64)>>
                   ELSE <<224 + (cp \div 4096), 128 + ((cp \div 64) % 64), 128 + (cp % 64)>>
       IN head \o utf8Bytes(Tail(codePoints))

\* text.startsWith("{") (line 561)
startsWithBrace(text) == Len(text) > 0 /\ text[1].tok = "{"

\* JSON.parse(text) (line 563): white space around the value is skipped; an
\* object is "{", members, "}"; anything else over these tokens throws
RECURSIVE trimStart(_)
trimStart(text) ==
  IF Len(text) > 0 /\ text[1].tok = " " THEN trimStart(Tail(text)) ELSE text
JSONparseThrows(text) ==
  LET t == trimStart(text) IN
  ~(/\ Len(t) >= 2
    /\ t[1].tok = "{"
    /\ t[Len(t)].tok = "}"
    /\ \A k \in 2..(Len(t) - 1) : t[k].tok = "member")
\* payload.key of the parsed object: the last member of that key, if any
payloadGet(text, key) ==
  LET t == trimStart(text)
      ks == {k \in 2..(Len(t) - 1) : t[k].key = key}
  IN IF ks = {} THEN NoMember ELSE t[CHOOSE k \in ks : \A l \in ks : l <= k]

\* lines 564-569: payload.type === "resize" with numeric cols and rows
isResizePayload(text) ==
  /\ payloadGet(text, "type").tok = "member"
  /\ ~payloadGet(text, "type").num
  /\ payloadGet(text, "type").str = "resize"
  /\ payloadGet(text, "cols").num
  /\ payloadGet(text, "rows").num

\* lines 555-578: the runtime call a frame on an authed data socket leads to
WriteCall(data, text) ==
  [op |-> "write", data |-> data, text |-> text, cols |-> 0, rows |-> 0]
ResizeCall(cols, rows) ==
  [op |-> "resize", data |-> <<>>, text |-> <<>>, cols |-> cols, rows |-> rows]
frameCalls(frame) ==
  IF frame.binary THEN <<WriteCall(toString(frame.bytes), <<>>)>>
  ELSE IF /\ startsWithBrace(frame.text)
          /\ ~JSONparseThrows(frame.text)
          /\ isResizePayload(frame.text)
    THEN <<ResizeCall(payloadGet(frame.text, "cols").int,
                      payloadGet(frame.text, "rows").int)>>
  ELSE <<WriteCall(<<>>, frame.text)>>

\* frames known by their kind only: binary; text that is not JSON; a JSON
\* object of another type; a JSON auth message; a JSON resize message
FrameKinds == {"binary", "text", "json", "auth", "resize"}
ResizeInputs == {<<Whole(120), Whole(40)>>, <<Whole(1), Whole(40)>>}
frameOf(kind, dims) ==
  CASE kind = "binary" -> BinaryFrame(<<108, 115>>)
    [] kind = "text" -> TextFrame(<<Tok("l"), Tok("s")>>)
    [] kind = "json" -> TextFrame(<<Tok("{"), StrMember("type", "ping"), Tok("}")>>)
    [] kind = "auth" -> TextFrame(<<Tok("{"), StrMember("type", "auth"),
                                    StrMember("token", "T"), Tok("}")>>)
    [] kind = "resize" -> TextFrame(ResizeText(dims[1], dims[2]))

\* frames known in full
Frames ==
  {frameOf(kind, dims) : kind \in FrameKinds, dims \in ResizeInputs}
  \cup {BinaryFrame(<<195, 169>>), BinaryFrame(<<27, 255>>),
        TextFrame(<<Tok("{"), Tok("o"), Tok("o"), Tok("p"), Tok("s")>>),
        TextFrame(<<Tok(" ")>> \o ResizeText(Whole(120), Whole(40))),
        TextFrame(<<Tok("{"), StrMember("type", "resize"), StrMember("cols", "120"),
                    NumMember("rows", Whole(40)), Tok("}")>>),
        TextFrame(<<Tok("{"), StrMember("type", "resize"), NumMember("cols", Whole(120)),
                    Tok("}")>>)}

\* lines 541-550: bind the data socket to the control context
bind(s, d, clientId, controlContext) ==
  [s EXCEPT !.dataContext[d] = [authed |-> TRUE, controlClientId |-> clientId,
                                controlContext |-> controlContext],
            !.context[controlContext].terminalClients = @ \cup {d}]

\* lines 515-553: a frame on a data socket that is not authed
DataRecvUnauthed(d, kind, token, password, rawClientId) ==
  /\ DataReceiving(d)
  /\ ~dataContext[d].authed
  /\ LET clientId == normalizeClientId(rawClientId)
         found == getControlContext(Cur, clientId)
     IN IF kind # "auth"
          THEN DataStep(closeData(Cur, d, "4001 auth required"), 1)
        ELSE IF clientId = Undefined \/ ~verify(token, password).ok \/ found = {}
          THEN DataStep(closeData(Cur, d, "4001 unauthorized"), 1)
        ELSE DataStep(bind(Cur, d, clientId, CHOOSE c \in found : TRUE), 1)

\* lines 555-578: ctx.controlContext?.runtime?.write / resize
RECURSIVE applyCalls(_, _, _, _, _)
applyCalls(s, d, c, r, calls) ==
  IF calls = <<>> THEN s
  ELSE LET call1 == calls[1]
           s1 == IF call1.op = "resize"
                   THEN resize(s, c, r, call1.cols, call1.rows)
                   ELSE write(s, c, r, d)
       IN applyCalls(s1, d, c, r, Tail(calls))
runtimeCalls(s, d, frame) ==
  IF s.context[s.dataContext[d].controlContext].runtime = 0 THEN <<>>
  ELSE frameCalls(frame)
recvFrame(s, d, frame) ==
  LET c == s.dataContext[d].controlContext
  IN applyCalls(s, d, c, s.context[c].runtime, runtimeCalls(s, d, frame))

\* lines 555-578: a frame on an authed data socket, known by its kind
DataRecvAuthed(d, kind, dims) ==
  /\ DataReceiving(d)
  /\ dataContext[d].authed
  /\ DataStep(recvFrame(Cur, d, frameOf(kind, dims)), 1)

\* lines 555-578: a frame on an authed data socket, known in full; the frame
\* goes into the history with the PTY of the runtime, the calls made, the
\* session the control context was attached to and the number of PTYs
\* spawned until then
DataRecvFrame(d, frame) ==
  /\ DataReceiving(d)
  /\ dataContext[d].authed
  /\ LET c == dataContext[d].controlContext
         r == context[c].runtime
         s0 == [Cur EXCEPT !.dataFrames = @ \cup
                  {[d |-> d, n |-> dataMsgs + 1, frame |-> frame,
                    process |-> IF r = 0 THEN 0 ELSE runtimes[c][r].process,
                    calls |-> runtimeCalls(Cur, d, frame),
                    ctx |-> c, attached |-> context[c].attachedSession,
                    spawned |-> Len(ptys)]}]
     IN DataStep(recvFrame(s0, d, frame), 1)

\* socket.on("close") lines 581-585
DataClose(d) ==
  /\ dsock[d] \in {"open", "closing"}
  /\ LET c == dataContext[d].controlContext
         s0 == [Cur EXCEPT !.dsock[d] = "closed"]
     IN IF c = Undefined THEN DataStep(s0, 0)
        ELSE DataStep([s0 EXCEPT !.context[c].terminalClients = @ \ {d}], 0)

\* ----------------------------------------------------------------------
\*  TmuxCliExecutor list commands (cli-executor.ts lines 9-13, 53-70,
\*  101-129) and the parser (tmux/types.ts lines 67-115).  A string is a
\*  sequence of characters.
\* ----------------------------------------------------------------------
TAB == "\t"
LF == "\n"
Whitespace == {" ", TAB, LF}
DigitChars == <<"0", "1", "2", "3", "4", "5", "6", "7", "8", "9">>
NaN == -1
UndefinedStr == <<"undefined">>

\* String(n) for a natural number
RECURSIVE digits(_)
digits(n) ==
  IF n < 10 THEN <<DigitChars[n + 1]>>
  ELSE digits(n \div 10) \o <<DigitChars[(n % 10) + 1]>>

\* String.prototype.trim
RECURSIVE dropWhitespace(_)
dropWhitespace(str) ==
  IF str # <<>> /\ str[1] \in Whitespace THEN dropWhitespace(Tail(str)) ELSE str
Reverse(str) == [k \in 1..Len(str) |-> str[Len(str) + 1 - k]]
trim(str) == Reverse(dropWhitespace(Reverse(dropWhitespace(str))))

\* String.prototype.split(sep)
RECURSIVE split(_, _)
split(str, sep) ==
  LET at == {k \in 1..Len(str) : str[k] = sep} IN
  IF at = {} THEN <<str>>
  ELSE LET k == CHOOSE k \in at : \A l \in at : k <= l
       IN <<SubSeq(str, 1, k - 1)>> \o split(SubSeq(str, k + 1, Len(str)), sep)

\* Number.parseInt(str, 10): the digits the string begins with, else NaN
DigitValue(ch) == CHOOSE d \in 0..9 : DigitChars[d + 1] = ch
RECURSIVE digitPrefix(_)
digitPrefix(str) ==
  IF str # <<>> /\ str[1] \in {DigitChars[k] : k \in 1..10}
    THEN <<str[1]>> \o digitPrefix(Tail(str))
    ELSE <<>>
RECURSIVE valueOf(_)
valueOf(ds) ==
  IF ds = <<>> THEN 0
  ELSE valueOf(SubSeq(ds, 1, Len(ds) - 1)) * 10 + DigitValue(ds[Len(ds)])
parseInt(str) ==
  LET ds == digitPrefix(dropWhitespace(str)) IN
  IF ds = <<>> THEN NaN ELSE valueOf(ds)

\* tmux -F: the fields of a record in the order of the format string, with
\* a tab between them; flags print as 1 or 0
RECURSIVE joinTab(_)
joinTab(fields) ==
  IF Len(fields) = 1 THEN fields[1]
  ELSE fields[1] \o <<TAB>> \o joinTab(Tail(fields))
flag(b) == IF b THEN <<"1">> ELSE <<"0">>
SESSION_FMT(r) == joinTab(<<r.name, flag(r.attached), digits(r.windows)>>)
WINDOW_FMT(r) ==
  joinTab(<<digits(r.index), r.name, flag(r.active), digits(r.paneCount)>>)
PANE_FMT(r) ==
  joinTab(<<digits(r.index), r.id, r.currentCommand, flag(r.active),
            digits(r.width) \o <<"x">> \o digits(r.height), flag(r.zoomed)>>)
formatLine(shape, r) ==
  CASE shape = "sessions" -> SESSION_FMT(r)
    [] shape = "windows" -> WINDOW_FMT(r)
    [] shape = "panes" -> PANE_FMT(r)

\* the command prints one line per record; runTmux returns stdout.trim()
RECURSIVE printLines(_, _)
printLines(shape, records) ==
  IF records = <<>> THEN <<>>
  ELSE formatLine(shape, records[1]) \o <<LF>> \o printLines(shape, Tail(records))
runTmux(shape, records) == trim(printLines(shape, records))

\* types.ts line 67 and the head of each parser: the trimmed lines that are
\* not empty, each split at the tabs into trimmed fields
NonEmpty(str) == str # <<>>
linesOf(raw) ==
  LET ls == split(raw, LF) IN
  SelectSeq([k \in 1..Len(ls) |-> trim(ls[k])], NonEmpty)
splitLine(line) ==
  LET fs == split(line, TAB) IN [k \in 1..Len(fs) |-> trim(fs[k])]
\* array destructuring: a position past the end is undefined
item(fields, k) == IF k <= Len(fields) THEN fields[k] ELSE UndefinedStr

\* types.ts lines 69-81
parseSessions(raw) ==
  LET ls == linesOf(raw) IN
  [k \in 1..Len(ls) |->
     LET f == splitLine(ls[k]) IN
     [name |-> item(f, 1),
      attached |-> item(f, 2) = <<"1">>,
      windows |-> parseInt(item(f, 3))]]
\* types.ts lines 83-97
parseWindows(raw) ==
  LET ls == linesOf(raw) IN
  [k \in 1..Len(ls) |->
     LET f == splitLine(ls[k]) IN
     [index |-> parseInt(item(f, 1)),
      name |-> item(f, 2),
      active |-> item(f, 3) = <<"1">>,
      zoomed |-> item(f, 4) = <<"1">>,
      paneCount |-> parseInt(item(f, 5))]]
\* types.ts lines 99-115
parsePanes(raw) ==
  LET ls == linesOf(raw) IN
  [k \in 1..Len(ls) |->
     LET f == splitLine(ls[k])
         wh == split(item(f, 5), "x")
     IN [index |-> parseInt(item(f, 1)),
         id |-> item(f, 2),
         currentCommand |-> item(f, 3),
         active |-> item(f, 4) = <<"1">>,
         width |-> parseInt(item(wh, 1)),
         height |-> parseInt(item(wh, 2))]]
parse(shape, raw) ==
  CASE shape = "sessions" -> parseSessions(raw)
    [] shape = "windows" -> parseWindows(raw)
    [] shape = "panes" -> parsePanes(raw)

\* what the multiplexer may hold: names without tabs or line feeds and
\* without white space at either end
MaxRecords == 2
CliNames == {<<"a">>, <<"m", "1">>, <<"a", " ", "b">>}
CliCounts == {1, 2, 12}
SessionRecords == [name : CliNames, attached : BOOLEAN, windows : CliCounts]
WindowRecords ==
  [index : {0, 1}, name : {<<"a">>, <<"a", " ", "b">>}, active : BOOLEAN,
   paneCount : {1, 2}]
PaneRecords ==
  [index : {0, 1}, id : {<<"%", "5">>}, currentCommand : {<<"s", "h">>},
   active : BOOLEAN, width : {80}, height : {24}, zoomed : BOOLEAN]
RecordsOf(shape) ==
  CASE shape = "sessions" -> SessionRecords
    [] shape = "windows" -> WindowRecords
    [] shape = "panes" -> PaneRecords
Lists(S) == UNION {[1..n -> S] : n \in 0..MaxRecords}

NoCli == [pc |-> "none", shape |-> "", records |-> <<>>, stdout |-> <<>>,
          parsed |-> <<>>]

\* listSessions / listWindows / listPanes up to the return of runTmux
\* (cli-executor.ts lines 102, 110, 118-124)
CliRun ==
  /\ cli.pc = "call"
  /\ cli' = [cli EXCEPT !.pc = "output", !.stdout = runTmux(cli.shape, cli.records)]
  /\ UNCHANGED <<monVars, coreVars>>

\* lines 103-106, 111-114, 125-128: no output gives [], else the parser
CliParse ==
  /\ cli.pc = "output"
  /\ cli' = [cli EXCEPT !.pc = "parsed",
                        !.parsed = IF cli.stdout = <<>> THEN <<>>
                                   ELSE parse(cli.shape, cli.stdout)]
  /\ UNCHANGED <<monVars, coreVars>>

\* ----------------------------------------------------------------------
\*  Specifications
\* ----------------------------------------------------------------------
\* the broker after construction and start(), whatever the multiplexer holds
BrokerStart ==
  /\ configPassword \in {Undefined, "pw"}
  /\ csock = [c \in Ctx |-> "none"]
  /\ cclose = [c \in Ctx |-> ""]
  /\ controlClients = {}
  /\ context = [c \in Ctx |-> NewContext]
  /\ runtimes = [c \in Ctx |-> <<>>]
  /\ ptys = <<>>
  /\ handlers = [c \in Ctx |-> <<>>]
  /\ arrivals = [c \in Ctx |-> 0]
  /\ shutdowns = {}
  /\ out = [c \in Ctx |-> <<>>]
  /\ authMark = [c \in Ctx |-> 0]
  /\ lastIn = [c \in Ctx |-> NoInput]
  /\ reconnectStateByClientId = [id \in ClientIds |-> NoReconnectState]
  /\ windowZoomed = FALSE
  /\ dsock = [d \in Data |-> "none"]
  /\ dclose = [d \in Data |-> ""]
  /\ dataContext = [d \in Data |-> NewDataContext]
  /\ gatewayCalls = {}
  /\ ptyWrites = {}
  /\ chunksSent = {}
  /\ emitted = {}
  /\ dataIn = [d \in Data |-> <<>>]
  /\ dataFrames = {}
  /\ started = TRUE
  /\ stopPromise = "null"
  /\ listening = TRUE
  /\ stopCalls = [k \in StopCallers |-> "idle"]
  /\ stopShutdowns = {}
  /\ stopRuns = 0
  /\ cleanupErrors = {}
  /\ ensured = {}
  /\ attachCalls = {}
  /\ restores = <<>>
  /\ handled = {}
  /\ forcePublishCalls = {}
  /\ controlMsgs = 0
  /\ dataMsgs = 0
  /\ events = 0
  /\ failures = 0

\* a multiplexer that holds base sessions only
BrokerInit ==
  /\ BrokerStart
  /\ \E existing \in {{}, {"main"}, {"main", "work"}} :
       sessions = [n \in AllNames |-> IF n \in existing THEN "own" ELSE "absent"]

MonInit ==
  /\ running = FALSE
  /\ forceGeneration = 0
  /\ lastSerializedState = Undefined
  /\ timerArmed = FALSE
  /\ strayTimers = 0
  /\ builds = {}
  /\ clock = 0
  /\ tmuxState = "s0"
  /\ mutations = 0
  /\ startCalled = FALSE
  /\ delivered = <<>>
  /\ discarded = {}
  /\ suppressed = {}
  /\ onErrorCalls = 0
  /\ failedBuilds = {}

MonNext ==
  \/ MonStart
  \/ MonStop
  \/ ForcePublish
  \/ TimerFire
  \/ \E b \in builds : BuildRead(b)
  \/ \E b \in builds : BuildResolve(b)
  \/ \E b \in builds : BuildFail(b)
  \/ TmuxMutate

Init == MonInit /\ BrokerInit /\ cli = NoCli

NoLimits ==
  [ctx |-> {}, data |-> {}, controlMsgs |-> 0, dataMsgs |-> 0, events |-> 0,
   failures |-> 0, stops |-> 0, types |-> {}, tokens |-> {}, passwords |-> {},
   rawClientIds |-> {}, dataClientIds |-> {}, frames |-> {}]

MonInit0 ==
  /\ Init
  /\ configPassword = Undefined
  /\ \A n \in BaseNames : sessions[n] = "own"
  /\ limits = NoLimits
MonSpec == MonInit0 /\ [][MonNext]_vars

\* The monitor kept running, with a gateway whose calls all return: every
\* buildSnapshot in flight reads the gateway and resolves in the end.
LiveNext ==
  \/ MonStart
  \/ ForcePublish
  \/ TimerFire
  \/ \E b \in builds : BuildRead(b)
  \/ \E b \in builds : BuildResolve(b)
  \/ TmuxMutate
LiveFairness ==
  \A id \in 1..MaxBuilds :
    /\ WF_vars(\E b \in builds : b.id = id /\ BuildRead(b))
    /\ WF_vars(\E b \in builds : b.id = id /\ BuildResolve(b))
LiveSpec == MonInit0 /\ [][LiveNext]_vars /\ LiveFairness

\* The actions, over every socket and every input
Connect == \E c \in Ctx : ControlConnect(c)
Close == \E c \in Ctx : ControlClose(c)
Invalid == \E c \in Ctx : RecvInvalid(c)
BeforeAuth == \E c \in Ctx : \E type \in limits.types : RecvBeforeAuth(c, type)
AuthRejected ==
  \E c \in Ctx : \E token \in limits.tokens : \E password \in limits.passwords :
    RecvAuthRejected(c, token, password)
Auth ==
  \E c \in Ctx : \E token \in limits.tokens : \E password \in limits.passwords :
    \E rawClientId \in limits.rawClientIds : RecvAuth(c, token, password, rawClientId)
Mutation ==
  \E c \in Ctx : \E type \in limits.types :
    \E session \in BaseNames : \E paneId \in PaneIds :
      RecvMutation(c, type, session, paneId)
\* message.session (line 327) and message.name (line 330) are whatever
\* string the client sent: the name of a base session, or a name with the
\* prefix of the mobile sessions
SuppliedNames == {"main", "tmux-mobile-client-r1"}
MutationNamed ==
  \E c \in Ctx : \E type \in limits.types :
    \E session \in SuppliedNames : \E paneId \in PaneIds :
      RecvMutation(c, type, session, paneId)
Evicted == \E c \in Ctx : \E i \in 1..MaxHandlers : EvictDone(c, i)
EnsListed == \E c \in Ctx : \E i \in 1..MaxHandlers : EnsListDone(c, i)
Created == \E c \in Ctx : \E i \in 1..MaxHandlers : CreateDone(c, i)
AttListed == \E c \in Ctx : \E i \in 1..MaxHandlers : AttListDone(c, i)
AttKilled == \E c \in Ctx : \E i \in 1..MaxHandlers : AttKillDone(c, i)
AttCreated == \E c \in Ctx : \E i \in 1..MaxHandlers : AttCreateDone(c, i)
ResSelected == \E c \in Ctx : \E i \in 1..MaxHandlers : ResSelectDone(c, i)
ResListed == \E c \in Ctx : \E i \in 1..MaxHandlers : ResListDone(c, i)
ResZoomed == \E c \in Ctx : \E i \in 1..MaxHandlers : ResZoomDone(c, i)
GatewayReturned == \E c \in Ctx : \E i \in 1..MaxHandlers : GatewayDone(c, i)
Published == \E c \in Ctx : \E i \in 1..MaxHandlers : ForcePublishDone(c, i)
ShutdownKilled == \E t \in shutdowns : ShutdownKillDone(t)
PtyEmits == \E p \in DOMAIN ptys : PtyData(p)
PtyExits == \E p \in DOMAIN ptys : PtyExit(p)
DataConnects == \E d \in Data : DataConnect(d)
DataUnauthed ==
  \E d \in Data : \E kind \in limits.frames : \E token \in limits.tokens :
    \E password \in limits.passwords : \E rawClientId \in limits.dataClientIds :
      DataRecvUnauthed(d, kind, token, password, rawClientId)
DataAuthed ==
  \E d \in Data : \E kind \in limits.frames : \E dims \in ResizeInputs :
    DataRecvAuthed(d, kind, dims)
DataFrames == \E d \in Data : \E frame \in Frames : DataRecvFrame(d, frame)
\* resize arguments that are not whole, not finite, or too small
SizeInputs ==
  {<<Num(1205), Num(409)>>, <<Infinity, Whole(40)>>, <<Whole(40), Infinity>>,
   <<Num(19), Whole(40)>>, <<Whole(40), Num(19)>>, <<Whole(2), Num(29)>>}
DataCloses == \E d \in Data : DataClose(d)
RuntimeAttaches ==
  \E session \in BaseNames : \E spawnOk \in BOOLEAN :
    RuntimeAttach(session, spawnOk)
RuntimeResizes == \E dims \in SizeInputs : RuntimeResize(dims[1], dims[2])
StopCalled == \E k \in StopCallers : StopCall(k)
StopKilled == \E t \in stopShutdowns : StopKillDone(t)

BrokerNext ==
  \/ Connect \/ Close \/ Invalid \/ BeforeAuth \/ AuthRejected \/ Auth \/ Mutation
  \/ Evicted \/ EnsListed \/ Created \/ AttListed \/ AttKilled \/ AttCreated
  \/ ResSelected \/ ResListed \/ ResZoomed \/ GatewayReturned \/ Published
  \/ ShutdownKilled \/ BroadcastState \/ PtyEmits \/ PtyExits
  \/ DataConnects \/ DataUnauthed \/ DataAuthed \/ DataFrames \/ DataCloses
  \/ MutationNamed \/ RuntimeNew \/ RuntimeAttaches
  \/ RuntimeResizes \/ RuntimeShutdown \/ StopCalled \/ StopKilled \/ ServerClosed

\* Two clients, each with a data socket: auths, binds, PTY output, input
IsoInit ==
  /\ Init
  /\ configPassword = Undefined
  /\ sessions["work"] = "absent"
  /\ limits = [ctx |-> {"c1", "c2"}, data |-> {"d1", "d2"},
               controlMsgs |-> IsoControlMsgs, dataMsgs |-> IsoDataMsgs,
               events |-> IsoEvents, failures |-> 0, stops |-> 0, types |-> {},
               tokens |-> {"T"}, passwords |-> {Undefined},
               rawClientIds |-> {"missing"},
               dataClientIds |-> {"r1", "r2"},
               frames |-> {"auth", "text", "resize"}]
IsoNext ==
  \/ Connect \/ Auth \/ EnsListed \/ Created \/ AttListed \/ AttCreated
  \/ Published \/ PtyEmits \/ DataConnects \/ DataUnauthed \/ DataAuthed
  \/ DataCloses
IsoSpec == IsoInit /\ [][IsoNext]_vars

\* Three control sockets whose auths ask for the same client id
EvictInit ==
  /\ Init
  /\ configPassword = Undefined
  /\ sessions["main"] = "own" /\ sessions["work"] = "absent"
  /\ limits = [NoLimits EXCEPT !.ctx = {"c1", "c2", "c3"},
                               !.controlMsgs = EvictControlMsgs,
                               !.tokens = {"T"}, !.passwords = {Undefined},
                               !.rawClientIds = {"X", " X "}]
EvictNext ==
  \/ Connect \/ Auth \/ Evicted \/ EnsListed \/ AttListed \/ AttCreated
  \/ Published
EvictSpec == EvictInit /\ [][EvictNext]_vars

\* One client that pipelines messages on its control socket and may close
\* it at any moment
PipeInit ==
  /\ Init
  /\ configPassword = Undefined
  /\ sessions["main"] = "own"
  /\ limits = [NoLimits EXCEPT !.ctx = {"c1"},
                               !.controlMsgs = PipeControlMsgs,
                               !.events = PipeEvents,
                               !.types = {"select_session", "capture_scrollback"},
                               !.tokens = {"T"}, !.passwords = {Undefined},
                               !.rawClientIds = {"X"}]
PipeNext ==
  \/ Connect \/ Close \/ Auth \/ Mutation \/ EnsListed \/ AttListed \/ AttKilled
  \/ AttCreated \/ GatewayReturned \/ Published \/ ShutdownKilled
  \/ BroadcastState \/ PtyExits
PipeSpec == PipeInit /\ [][PipeNext]_vars

\* One client with a data socket: auth, a change of session, resizes
AttachInit ==
  /\ Init
  /\ configPassword = Undefined
  /\ sessions["main"] = "own"
  /\ limits = [NoLimits EXCEPT !.ctx = {"c1"}, !.data = {"d1"},
                               !.controlMsgs = AttachControlMsgs,
                               !.dataMsgs = AttachDataMsgs,
                               !.events = AttachEvents,
                               !.types = {"select_session", "new_session"},
                               !.tokens = {"T"}, !.passwords = {Undefined},
                               !.rawClientIds = {"X"}, !.dataClientIds = {"X"},
                               !.frames = {"auth", "resize"}]
AttachNext ==
  \/ Connect \/ Auth \/ Mutation \/ EnsListed \/ Created \/ AttListed \/ AttKilled
  \/ AttCreated \/ Published \/ BroadcastState \/ PtyExits
  \/ DataConnects \/ DataUnauthed \/ DataAuthed
AttachSpec == AttachInit /\ [][AttachNext]_vars

\* Two control sockets that send anything at all before and after auth, with
\* a password configured
GateInit ==
  /\ Init
  /\ configPassword = "pw"
  /\ sessions["main"] = "own" /\ sessions["work"] = "absent"
  /\ limits = [NoLimits EXCEPT !.ctx = {"c1", "c2"},
                               !.controlMsgs = GateControlMsgs,
                               !.events = GateEvents,
                               !.types = {"send_compose", "capture_scrollback",
                                          "new_window", "auth"},
                               !.tokens = Tokens, !.passwords = Passwords,
                               !.rawClientIds = {"X", "missing"}]
GateNext ==
  \/ Connect \/ Invalid \/ BeforeAuth \/ AuthRejected \/ Auth \/ Mutation
  \/ Evicted \/ EnsListed \/ AttListed \/ AttCreated \/ GatewayReturned
  \/ Published \/ BroadcastState
GateSpec == GateInit /\ [][GateNext]_vars

\* One authed client and two data sockets that send any frame in any state
DataInit ==
  /\ Init
  /\ configPassword = "pw"
  /\ sessions["main"] = "own" /\ sessions["work"] = "absent"
  /\ limits = [NoLimits EXCEPT !.ctx = {"c1"}, !.data = {"d1", "d2"},
                               !.controlMsgs = DataControlMsgs,
                               !.dataMsgs = DataDataMsgs,
                               !.tokens = Tokens, !.passwords = Passwords,
                               !.rawClientIds = {"X"},
                               !.dataClientIds = RawClientIds \cup {"r2"},
                               !.frames = FrameKinds]
DataNext ==
  \/ Connect \/ Close \/ AuthRejected \/ Auth \/ EnsListed \/ AttListed
  \/ AttCreated \/ Published \/ ShutdownKilled
  \/ DataConnects \/ DataUnauthed \/ DataAuthed \/ DataCloses
DataSpec == DataInit /\ [][DataNext]_vars

\* Two clients and two data sockets that bind and close while the PTYs emit
ChunkInit ==
  /\ Init
  /\ configPassword = Undefined
  /\ sessions["main"] = "own" /\ sessions["work"] = "absent"
  /\ limits = [NoLimits EXCEPT !.ctx = {"c1", "c2"}, !.data = {"d1", "d2"},
                               !.controlMsgs = ChunkControlMsgs,
                               !.dataMsgs = ChunkDataMsgs,
                               !.events = ChunkEvents,
                               !.tokens = {"T"}, !.passwords = {Undefined},
                               !.rawClientIds = {"missing"},
                               !.dataClientIds = {"r1", "r2"},
                               !.frames = {"auth"}]
ChunkNext ==
  \/ Connect \/ Auth \/ EnsListed \/ AttListed \/ AttCreated \/ Published
  \/ PtyEmits \/ DataConnects \/ DataUnauthed \/ DataCloses
ChunkSpec == ChunkInit /\ [][ChunkNext]_vars

\* The monitor once start() has resolved: the first snapshot was delivered
\* and the poll timer is armed
MonStarted ==
  /\ running = TRUE
  /\ forceGeneration = 0
  /\ lastSerializedState = Serialize("s0")
  /\ timerArmed = TRUE
  /\ strayTimers = 0
  /\ builds = {}
  /\ clock = 1
  /\ tmuxState = "s0"
  /\ mutations = 0
  /\ startCalled = TRUE
  /\ delivered = <<[id |-> 1, snap |-> "s0", force |-> FALSE,
                    superseded |-> FALSE, running |-> TRUE]>>
  /\ discarded = {}
  /\ suppressed = {}
  /\ onErrorCalls = 0
  /\ failedBuilds = {}

\* Two clients, and stop() called twice at any moments
StopInit ==
  /\ MonStarted
  /\ BrokerInit
  /\ cli = NoCli
  /\ configPassword = Undefined
  /\ sessions["main"] = "own" /\ sessions["work"] = "absent"
  /\ limits = [NoLimits EXCEPT !.ctx = {"c1", "c2"},
                               !.controlMsgs = StopControlMsgs,
                               !.failures = StopFailures,
                               !.stops = MaxStopCalls,
                               !.tokens = {"T"}, !.passwords = {Undefined},
                               !.rawClientIds = {"X", "missing"}]
StopNext ==
  \/ Connect \/ Close \/ Auth \/ Evicted \/ EnsListed \/ AttListed \/ AttCreated
  \/ Published \/ ShutdownKilled \/ StopCalled \/ StopKilled \/ ServerClosed
StopSpec == StopInit /\ [][StopNext]_vars

\* Two clients that auth, with any set of base sessions to start with; the
\* second may come back under the client id of the first
EnsureInit ==
  /\ Init
  /\ configPassword = Undefined
  /\ limits = [NoLimits EXCEPT !.ctx = {"c1", "c2"},
                               !.controlMsgs = EnsureControlMsgs,
                               !.tokens = {"T"}, !.passwords = {Undefined},
                               !.rawClientIds = {"X", "missing"}]
EnsureNext ==
  \/ Connect \/ Close \/ Auth \/ Evicted \/ EnsListed \/ Created
  \/ AttListed \/ AttCreated \/ Published \/ ShutdownKilled
EnsureSpec == EnsureInit /\ [][EnsureNext]_vars

\* Two clients in turn, with two base sessions: auth, a choice of session,
\* close, and auth again under the same client id, with a choice of its own
PickInit ==
  /\ Init
  /\ configPassword = Undefined
  /\ \A n \in BaseNames : sessions[n] = "own"
  /\ limits = [NoLimits EXCEPT !.ctx = {"c1", "c2"},
                               !.controlMsgs = PickControlMsgs,
                               !.types = {"select_session"},
                               !.tokens = {"T"}, !.passwords = {Undefined},
                               !.rawClientIds = {"X"}]
PickNext ==
  \/ Connect \/ Close \/ Auth \/ Mutation \/ EnsListed
  \/ AttListed \/ AttKilled \/ AttCreated \/ ShutdownKilled
PickSpec == PickInit /\ [][PickNext]_vars

\* One client whose pane and zoom are remembered from a snapshot and who
\* attaches again and again by choosing a session
RestoreInit ==
  /\ Init
  /\ configPassword = Undefined
  /\ sessions["main"] = "own" /\ sessions["work"] = "absent"
  /\ limits = [NoLimits EXCEPT !.ctx = {"c1"},
                               !.controlMsgs = RestoreControlMsgs,
                               !.events = RestoreEvents,
                               !.failures = RestoreFailures,
                               !.types = {"select_session"},
                               !.tokens = {"T"}, !.passwords = {Undefined},
                               !.rawClientIds = {"X"}]
RestoreNext ==
  \/ Connect \/ Auth \/ Mutation \/ EnsListed \/ AttListed \/ AttKilled
  \/ AttCreated \/ ResSelected \/ ResListed \/ ResZoomed \/ Published
  \/ BroadcastState
RestoreSpec == RestoreInit /\ [][RestoreNext]_vars

\* One client whose auth and mutations may meet one failing gateway call
ForceInit ==
  /\ Init
  /\ configPassword = Undefined
  /\ sessions["main"] = "own" /\ sessions["work"] = "absent"
  /\ limits = [NoLimits EXCEPT !.ctx = {"c1"},
                               !.controlMsgs = ForceControlMsgs,
                               !.failures = ForceFailures,
                               !.types = {"select_session", "new_window",
                                          "capture_scrollback", "auth"},
                               !.tokens = {"T"}, !.passwords = {Undefined},
                               !.rawClientIds = {"X"}]
ForceNext ==
  \/ Connect \/ Auth \/ Mutation \/ EnsListed \/ AttListed \/ AttKilled
  \/ AttCreated \/ GatewayReturned \/ Published
ForceSpec == ForceInit /\ [][ForceNext]_vars

\* ----------------------------------------------------------------------
\* C2: a build that was in flight when a forcePublish began is never
\* delivered to onUpdate, and after a forcePublish has delivered its
\* snapshot no snapshot of a build started before it is delivered.
C2_StaleDiscarded ==
  /\ \A i \in 1..Len(delivered) : ~delivered[i].superseded
  /\ \A i \in 1..Len(delivered) : \A j \in 1..Len(delivered) :
       (i < j /\ delivered[i].force) => delivered[j].id > delivered[i].id

\* A build started before a forcePublish resolved after that forcePublish
\* had delivered, and was dropped.
C2_Witness ==
  \E x \in discarded : \E i \in 1..Len(delivered) :
    /\ i <= x.after
    /\ delivered[i].force
    /\ x.id < delivered[i].id

\* ----------------------------------------------------------------------
\* C1: a chunk emitted by a PTY is sent only to data sockets bound to the
\* context that owns the PTY, under that context's client id; input received
\* on a data socket is written only to the PTY of the context it is bound
\* to, under the client id it named.
C1_Isolation ==
  /\ \A x \in chunksSent : x.from = x.bound /\ x.fromId = x.boundId
  /\ \A w \in ptyWrites :
       w.src \in Data => (w.owner = w.bound /\ w.ownerId = w.boundId)

\* Two contexts with different client ids are attached, each has a bound
\* data socket, a chunk went out and an input came in.
C1_Witness ==
  /\ \E a \in Ctx : \E b \in Ctx :
       /\ a # b /\ context[a].authed /\ context[b].authed
       /\ context[a].clientId # context[b].clientId
       /\ context[a].terminalClients # {} /\ context[b].terminalClients # {}
       /\ \E x \in chunksSent : x.from = a
       /\ \E w \in ptyWrites : w.src \in Data /\ w.owner = b

\* ----------------------------------------------------------------------
\* C5: no two registered control contexts with open sockets are authenticated
\* under the same client id.
C5_SingleHolder ==
  \A a \in controlClients : \A b \in controlClients :
    (/\ a # b
     /\ csock[a] = "open" /\ csock[b] = "open"
     /\ context[a].authed /\ context[b].authed)
    => context[a].clientId # context[b].clientId

\* ----------------------------------------------------------------------
\* C3: on one control socket, a handler that is not the oldest one in flight
\* has issued no gateway call and sent no response, and the responses sent
\* on the socket are in the order of arrival of their messages.
C3_Sequential ==
  \A c \in Ctx :
    /\ \A i \in DOMAIN handlers[c] : \A j \in DOMAIN handlers[c] :
         i < j =>
           /\ ~\E g \in gatewayCalls : g.ctx = c /\ g.n = handlers[c][j].n
           /\ ~\E k \in DOMAIN out[c] : out[c][k].n = handlers[c][j].n
    /\ \A k \in DOMAIN out[c] : \A l \in DOMAIN out[c] :
         (k < l /\ out[c][k].n > 0 /\ out[c][l].n > 0) => out[c][k].n <= out[c][l].n

\* ----------------------------------------------------------------------
\* C4: once a control socket is closed, its handlers have all finished and
\* its shutdown has completed, no PTY spawned for the context is alive and
\* the context's mobile session does not exist.
C4_TornDown ==
  \A c \in Ctx :
    (/\ csock[c] = "closed"
     /\ handlers[c] = <<>>
     /\ ~\E t \in shutdowns : t.ctx = c)
    => /\ ~\E p \in DOMAIN ptys : ptys[p].owner = c /\ ptys[p].status = "alive"
       /\ context[c].clientId # NoId =>
            sessions[buildMobileSessionName(context[c].clientId)] = "absent"

\* ----------------------------------------------------------------------
\* C9: on a control socket that became authed, the first message sent after
\* that moment is auth_ok, session_picker or attached, and every attached
\* or session_picker on the socket comes after an auth_ok.
C9_AuthOkFirst ==
  \A c \in Ctx :
    context[c].authed =>
      /\ Len(out[c]) > authMark[c] =>
           out[c][authMark[c] + 1].type \in {"auth_ok", "session_picker", "attached"}
      /\ \A k \in DOMAIN out[c] :
           out[c][k].type \in {"attached", "session_picker"} =>
             \E j \in 1..(k - 1) : out[c][j].type = "auth_ok"

\* An auth was answered by auth_ok, then attached, and a state broadcast
\* reached the socket as well.
C9_Witness ==
  \E c \in Ctx :
    /\ context[c].authed
    /\ Len(out[c]) > authMark[c]
    /\ out[c][authMark[c] + 1].type = "auth_ok"
    /\ \E k \in DOMAIN out[c] : out[c][k].type = "attached"
    /\ \E k \in DOMAIN out[c] : out[c][k].type = "tmux_state"

\* ----------------------------------------------------------------------
\* C10: for every attached {s} sent on a control socket, a PTY for s was
\* spawned for that context and was resized at its spawn to the runtime's
\* last known dimensions.
C10_AttachedAfterSpawn ==
  \A c \in Ctx : \A k \in DOMAIN out[c] :
    out[c][k].type = "attached" =>
      \E p \in DOMAIN ptys :
        /\ ptys[p].owner = c
        /\ ptys[p].session = out[c][k].arg
        /\ ptys[p].initial = ptys[p].last

\* attached was sent for a PTY spawned after a resize had changed the
\* runtime's dimensions.
C10_Witness ==
  \E c \in Ctx : \E k \in DOMAIN out[c] : \E p \in DOMAIN ptys :
    /\ out[c][k].type = "attached"
    /\ ptys[p].owner = c
    /\ ptys[p].session = out[c][k].arg
    /\ ptys[p].initial = <<120, 40>>

\* ----------------------------------------------------------------------
\* C6: a data socket the broker closed with code 4001 is not authenticated
\* and belongs to no context's terminal clients; an authenticated data
\* socket named the client id of the context it is bound to.
C6_BoundOnlyByAuth ==
  \A d \in Data :
    /\ dclose[d] \in {"4001 auth required", "4001 unauthorized"} =>
         /\ ~dataContext[d].authed
         /\ \A c \in Ctx : d \notin context[c].terminalClients
    /\ dataContext[d].authed =>
         /\ dataContext[d].controlContext \in Ctx
         /\ context[dataContext[d].controlContext].authed
         /\ context[dataContext[d].controlContext].clientId =
              dataContext[d].controlClientId

\* ----------------------------------------------------------------------
\* C7: every gateway call was issued for a context that was authed or by a
\* handler whose auth message had passed verify, every PTY write requested
\* on a control socket came from an authed context, and a socket that is
\* not authed has been sent nothing but auth_error and error.
C7_NothingBeforeAuth ==
  /\ \A g \in gatewayCalls : g.authed \/ g.verified
  /\ \A w \in ptyWrites : w.src \in Ctx => w.authed
  /\ \A c \in Ctx :
       ~context[c].authed =>
         \A k \in DOMAIN out[c] : out[c][k].type \in {"auth_error", "error"}

\* One socket is authed, attached and has received a state broadcast while
\* another, not authed, has sent two messages and got only rejections.
C7_Witness ==
  \E a \in Ctx : \E b \in Ctx :
    /\ context[a].authed /\ context[a].attachedSession # Undefined
    /\ \E k \in DOMAIN out[a] : out[a][k].type = "tmux_state"
    /\ ~context[b].authed /\ lastIn[b].kind \notin {"none", "auth", "invalid"}
    /\ Len(out[b]) = 2

\* ----------------------------------------------------------------------
\* C8: a control socket that is not authed stays open, has no client id, no
\* attached session and no runtime; the last message it was sent answers
\* the last message it sent: auth_error "auth required" to a non-auth
\* message, auth_error with the verify reason to a failed auth; and auth
\* with correct credentials is answered by auth_ok.
C8_Answer(c) ==
  LET in == lastIn[c]
      last == out[c][Len(out[c])] IN
  CASE in.kind = "none" -> TRUE
    [] in.kind = "invalid" ->
         Len(out[c]) > 0 /\ last.type = "error" /\ last.arg = "invalid message format"
    [] in.kind = "auth" /\ verify(in.token, in.password).ok ->
         \E i \in DOMAIN handlers[c] : handlers[c][i].pc = "evictKill"
    [] in.kind = "auth" ->
         /\ Len(out[c]) > 0 /\ last.type = "auth_error"
         /\ last.arg = verify(in.token, in.password).reason
    [] OTHER ->
         Len(out[c]) > 0 /\ last.type = "auth_error" /\ last.arg = "auth required"

C8_RetryAllowed ==
  \A c \in Ctx :
    /\ (csock[c] # "none" /\ ~context[c].authed) =>
         /\ csock[c] = "open"
         /\ context[c].clientId = NoId
         /\ context[c].attachedSession = Undefined
         /\ context[c].runtime = 0
         /\ C8_Answer(c)
    /\ context[c].authed =>
         /\ Len(out[c]) > authMark[c]
         /\ out[c][authMark[c] + 1].type = "auth_ok"

\* A socket was refused twice, for a non-auth message and for a wrong
\* password, and then authed on its third message.
C8_Witness ==
  \E c \in Ctx :
    /\ context[c].authed
    /\ authMark[c] = 2
    /\ \E k \in 1..2 : out[c][k].type = "auth_error" /\ out[c][k].arg = "auth required"
    /\ \E k \in 1..2 : out[c][k].type = "auth_error" /\ out[c][k].arg = "invalid password"
    /\ out[c][3].type = "auth_ok"

\* ----------------------------------------------------------------------
\* C11: every chunk a PTY emitted was sent exactly once to each data socket
\* that was authenticated, bound to the PTY's context and open at that
\* moment; each data socket was sent its chunks in emission order; and every
\* chunk a data socket was sent came from the PTY of the context it is
\* bound to.
C11_ExactlyOnce ==
  /\ \A e \in emitted : \A d \in e.open :
       Cardinality({k \in DOMAIN dataIn[d] : dataIn[d][k] = e.chunk}) = 1
  /\ \A d \in Data : \A k \in DOMAIN dataIn[d] : \A l \in DOMAIN dataIn[d] :
       k < l => dataIn[d][k] < dataIn[d][l]
  /\ \A d \in Data : \A k \in DOMAIN dataIn[d] :
       \E e \in emitted :
         /\ e.chunk = dataIn[d][k]
         /\ e.owner = dataContext[d].controlContext
         /\ d \in e.open

\* A data socket was sent two chunks, and a chunk of another context's PTY
\* did not reach it.
C11_Witness ==
  \E d \in Data :
    /\ Len(dataIn[d]) = 2
    /\ \E e \in emitted : e.owner # dataContext[d].controlContext

\* ----------------------------------------------------------------------
\* C12: every message that passed the auth gate (a successful auth, or a
\* well-formed message on an authed socket) has its handler call
\* monitor.forcePublish exactly once, after the attach or mutation attempt
\* has finished, whether the attempt returned or threw: a handler that has
\* ended has made the call, and one still at its attempt has not yet.
\* ----------------------------------------------------------------------
C12_AlwaysForcePublish ==
  \A m \in handled :
    LET live == {i \in DOMAIN handlers[m.ctx] : handlers[m.ctx][i].n = m.n}
        calls == {f \in forcePublishCalls : f.ctx = m.ctx /\ f.n = m.n}
    IN /\ live = {} => Cardinality(calls) = 1
       /\ live # {} => calls = {}
       /\ Cardinality(live) <= 1

\* both a mutation that threw and an initial attach that threw have ended
C12_Witness ==
  /\ \E m \in handled : \E f \in forcePublishCalls :
       m.type = "auth" /\ f.ctx = m.ctx /\ f.n = m.n /\ f.threw
  /\ \E m \in handled : \E f \in forcePublishCalls :
       m.type # "auth" /\ f.ctx = m.ctx /\ f.n = m.n /\ f.threw
  /\ \E m \in handled : \E f \in forcePublishCalls :
       f.ctx = m.ctx /\ f.n = m.n /\ ~f.threw

C14_OnlyOnChange ==
  /\ \A i \in DOMAIN delivered :
       (i > 1 /\ ~delivered[i].force)
         => Serialize(delivered[i].snap) # Serialize(delivered[i - 1].snap)
  /\ \A x \in suppressed :
       x.after > 0 /\ Serialize(x.snap) = Serialize(delivered[x.after].snap)

\* a tick's snapshot equal to the last one delivered was dropped, and a
\* later tick's snapshot, which differed, was delivered
C14_Witness ==
  \E x \in suppressed : \E i \in DOMAIN delivered :
    /\ i = x.after + 1
    /\ ~delivered[i].force
    /\ delivered[i].id > x.id

\* ----------------------------------------------------------------------
\* C15: once stop() has been called onUpdate is not invoked again: every
\* snapshot is delivered while the monitor is running.
\* ----------------------------------------------------------------------
C15_NoUpdateAfterStop ==
  \A i \in DOMAIN delivered : delivered[i].running

\* ----------------------------------------------------------------------
\* C16: stop() is idempotent and single-flight.  The shutdown sequence is
\* begun at most once; a call made while it is in progress awaits it; a
\* call made after it completed returns without effect; no call throws.
\* ----------------------------------------------------------------------
C16_SingleFlight ==
  /\ stopRuns <= 1
  /\ \A k \in StopCallers : stopCalls[k] # "threw"
  /\ Cardinality({k \in StopCallers : stopCalls[k] = "own"}) <= 1
  /\ \A k \in StopCallers :
       /\ stopCalls[k] = "join" => stopPromise # "null"
       /\ stopCalls[k] = "noop" => (~started /\ stopRuns = 1)
       /\ stopCalls[k] = "done" => (~listening /\ stopRuns = 1)

\* the second call was made while the first awaited the killSession of a
\* context, and both have resolved
C16_Witness ==
  /\ \A k \in StopCallers : stopCalls[k] = "done"
  /\ stopRuns = 1
  /\ \E e \in gatewayCalls : e.op = "killSession"

\* ----------------------------------------------------------------------
\* C17: in the step where a killSession of teardown (after a socket close,
\* for an evicted context, or in stop) has failed, the failure is logged,
\* no error message is sent on any control socket, the context's
\* attachedSession is cleared, and stop goes on: the failed call no longer
\* holds the shutdown back, and no call of stop throws.
\* ----------------------------------------------------------------------
C17_CleanupFailureContained ==
  [][\A t \in cleanupErrors' \ cleanupErrors :
       /\ context'[t.ctx].attachedSession = Undefined
       /\ \A c \in Ctx : \A i \in (Len(out[c]) + 1)..Len(out'[c]) :
            out'[c][i].type # "error"
       /\ \A k \in StopCallers : stopCalls'[k] # "threw"
       /\ t.origin = "stop" =>
            /\ \A u \in stopShutdowns' : u.ctx # t.ctx
            /\ stopShutdowns' = {} => stopPromise' # "shutdown"]_vars

\* stop has resolved although the killSession of one context failed, and
\* the mobile session of another context was killed by it
C17_Witness ==
  /\ \E k \in StopCallers : stopCalls[k] = "done"
  /\ \E t \in cleanupErrors :
       /\ t.origin = "stop"
       /\ \E g \in gatewayCalls :
            /\ g.op = "killSession" /\ g.ctx # t.ctx
            /\ sessions[g.target] = "absent"
            /\ context[g.ctx].attachedSession = Undefined

\* ----------------------------------------------------------------------
\* C18: ensureAttachedSession without forceSession decides on the sessions
\* listed less those with the mobile prefix.  The remembered baseSession,
\* if listed, is attached to; else with none listed the default session is
\* created and attached to; else with one listed that one is attached to;
\* else session_picker is sent with exactly the sessions left, and the
\* handler neither calls attachControlToBaseSession nor the gateway again.
\* ----------------------------------------------------------------------
C18_EnsureDecision ==
  \A e \in ensured :
    LET base == e.listed \ MobileNames
        mine == {g \in gatewayCalls : g.ctx = e.ctx /\ g.n = e.n}
        attaches == {a \in attachCalls : a.ctx = e.ctx /\ a.n = e.n}
        pickers == {k \in DOMAIN out[e.ctx] :
                      /\ out[e.ctx][k].type = "session_picker"
                      /\ out[e.ctx][k].n = e.n}
        created == {g \in mine : g.op = "createSession"}
    IN IF e.preferred # Undefined /\ e.preferred \in base
         THEN /\ attaches = {[ctx |-> e.ctx, n |-> e.n, base |-> e.preferred]}
              /\ created = {} /\ pickers = {}
       ELSE IF base = {}
         THEN /\ \E g \in created : g.target = defaultSession
              /\ \A a \in attaches : a.base = defaultSession
              /\ pickers = {}
       ELSE IF Cardinality(base) = 1
         THEN /\ \E a \in attaches : attaches = {a} /\ a.base \in base
              /\ created = {} /\ pickers = {}
       ELSE /\ \A k \in pickers : out[e.ctx][k].arg = base
            /\ Cardinality(pickers) <= 1
            /\ csock[e.ctx] = "open" => pickers # {}
            /\ attaches = {}
            /\ \A g \in mine : g.op = "listSessions"
            /\ (\A a \in attachCalls : a.ctx # e.ctx) =>
                 /\ context[e.ctx].runtime = 0
                 /\ \A p \in DOMAIN ptys : ptys[p].owner # e.ctx

\* a client came back to its remembered session, after the first client
\* was attached to the only base session although the listing held a
\* mobile session too
C18_Witness ==
  /\ \E e \in ensured : \E a \in attachCalls :
       /\ e.listed \cap MobileNames # {}
       /\ Cardinality(e.listed \ MobileNames) = 1
       /\ a.ctx = e.ctx /\ a.n = e.n
  /\ \E e \in ensured : e.preferred # Undefined /\ e.preferred \in e.listed

\* ----------------------------------------------------------------------
\* C19: ReconnectState outlives the control socket.  When a context auths
\* under the client id of a context whose socket has closed while attached
\* to base session b, it takes that client id, and if the listing of its
\* initial attach still holds b it is attached to b, with no
\* session_picker, however many base sessions are listed.
\* ----------------------------------------------------------------------
C19_ReattachRemembered ==
  \A m \in handled : \A p \in m.after :
    (m.type = "auth" /\ p.id = context[m.ctx].clientId) =>
      /\ context[m.ctx].authed
      /\ \A e \in ensured :
           (e.ctx = m.ctx /\ e.n = m.n /\ p.base \in e.listed) =>
             /\ [ctx |-> m.ctx, n |-> m.n, base |-> p.base] \in attachCalls
             /\ \A k \in DOMAIN out[m.ctx] :
                  out[m.ctx][k].type # "session_picker"

\* ----------------------------------------------------------------------
\* C20: restoring the remembered view on attach.  selectPane(paneId) comes
\* first; zoomPane(paneId) is called at most once, after selectPane has
\* succeeded, and only when the active window's zoom flag differs from the
\* remembered one.  If selectPane fails nothing more is called for the
\* restore, no error is sent for the message, and attached is still sent.
\* ----------------------------------------------------------------------
C20_BestEffortRestore ==
  /\ \A k \in DOMAIN restores :
       LET r == restores[k]
           same == {j \in DOMAIN restores :
                      restores[j].ctx = r.ctx /\ restores[j].n = r.n}
           sent == {out[r.ctx][j].type : j \in {j \in DOMAIN out[r.ctx] :
                                                  out[r.ctx][j].n = r.n}}
       IN /\ r.stage = "selectPane" => \A j \in same : j >= k
          /\ r.stage = "zoomPane" =>
               /\ \E j \in same : /\ j < k
                                   /\ restores[j].stage = "selectPane"
                                   /\ restores[j].ok
                                   /\ restores[j].pane = r.pane
               /\ r.remembered # {}
               /\ {r.zoomed} # r.remembered
               /\ \A j \in same : restores[j].stage = "zoomPane" => j = k
               /\ \E g \in gatewayCalls :
                    /\ g.ctx = r.ctx /\ g.n = r.n
                    /\ g.op = "zoomPane" /\ g.target = r.pane
          /\ (r.stage = "selectPane" /\ ~r.ok) =>
               /\ same = {k}
               /\ \A g \in gatewayCalls :
                    (g.ctx = r.ctx /\ g.n = r.n) =>
                      g.op \notin {"zoomPane", "listWindows"}
               /\ "error" \notin sent
               /\ csock[r.ctx] = "open" => "attached" \in sent
  /\ \A g \in gatewayCalls :
       g.op = "zoomPane" =>
         \E k \in DOMAIN restores :
           /\ restores[k].stage = "zoomPane"
           /\ restores[k].ctx = g.ctx /\ restores[k].n = g.n

\* one attach toggled the zoom after selecting the pane, another found the
\* pane gone and was still answered with attached
C20_Witness ==
  /\ \E k \in DOMAIN restores : restores[k].stage = "zoomPane"
  /\ \E k \in DOMAIN restores :
       /\ restores[k].stage = "selectPane" /\ ~restores[k].ok
       /\ \E j \in DOMAIN out[restores[k].ctx] :
            /\ out[restores[k].ctx][j].type = "attached"
            /\ out[restores[k].ctx][j].n = restores[k].n

\* ----------------------------------------------------------------------
\* C21: an auth message on a socket that is authed is ignored.  A socket is
\* sent auth_ok at most once, the client id it was sent is the one its
\* context keeps, and the initial attach is run by one handler only, even
\* when auth messages arrive while the first is being handled.
\* ----------------------------------------------------------------------
C21_AuthAtMostOnce ==
  \A c \in Ctx :
    LET oks == {k \in DOMAIN out[c] : out[c][k].type = "auth_ok"}
        initial == {g.n : g \in {g \in gatewayCalls :
                                   g.ctx = c /\ g.verified /\ g.op = "listSessions"}}
    IN /\ Cardinality(oks) <= 1
       /\ \A k \in oks : context[c].authed /\ out[c][k].arg = context[c].clientId
       /\ Cardinality(initial) <= 1

\* A client that auths and sends window commands, with any set of base
\* sessions to start with: a command may find its context attached, not
\* attached (session picker) or with the initial attach still under way
WindowInit ==
  /\ Init
  /\ configPassword = Undefined
  /\ limits = [NoLimits EXCEPT !.ctx = {"c1"},
                               !.controlMsgs = WindowControlMsgs,
                               !.types = WindowTypes,
                               !.tokens = {"T"}, !.passwords = {Undefined},
                               !.rawClientIds = {"missing"}]
WindowNext ==
  \/ Connect \/ Auth \/ Mutation \/ EnsListed \/ Created
  \/ AttListed \/ AttCreated \/ GatewayReturned \/ Published
WindowSpec == WindowInit /\ [][WindowNext]_vars

\* ----------------------------------------------------------------------
\* C22: a window command (new_window, select_window, kill_window) makes its
\* gateway call on the attachedSession of the context that received it, never
\* on a session name from the message; on a context without attachedSession
\* it makes no gateway call and the client is sent error "no attached
\* session".
\* ----------------------------------------------------------------------
C22_NoSession(c, n) == Msg("error", n, "no attached session")
C22_Received(h) ==
  LET own == context[h.ctx].attachedSession
      made == gatewayCalls' \ gatewayCalls
      mine == handlers'[h.ctx][Len(handlers'[h.ctx])]
  IN IF own = Undefined
       THEN made = {} /\ mine.n = h.n /\ mine.err = "no attached session"
       ELSE /\ Cardinality(made) = 1
            /\ \A g \in made : /\ g.ctx = h.ctx /\ g.n = h.n
                               /\ g.op = windowOp(h.type)
                               /\ g.target = own
C22_Answered ==
  \A h \in handled :
    (/\ h.type \in WindowTypes
     /\ \A i \in DOMAIN handlers[h.ctx] : handlers[h.ctx][i].n # h.n
     /\ \A g \in gatewayCalls : ~(g.ctx = h.ctx /\ g.n = h.n)
     /\ csock[h.ctx] = "open")
    => \E k \in DOMAIN out[h.ctx] : out[h.ctx][k] = C22_NoSession(h.ctx, h.n)
C22_OwnSessionOnly ==
  [][/\ \A h \in handled' \ handled : h.type \in WindowTypes => C22_Received(h)
     /\ C22_Answered']_vars
C22_Witness ==
  /\ \E g \in gatewayCalls : g.op = "killWindow" /\ g.target \in MobileNames
  /\ \E h \in handled :
       /\ h.type = "select_window"
       /\ \E k \in DOMAIN out[h.ctx] : out[h.ctx][k] = C22_NoSession(h.ctx, h.n)

\* A client that auths, with any set of base sessions to start with and one
\* step of the initial attach that may fail, and then asks for a new window
FailInit ==
  /\ Init
  /\ configPassword = Undefined
  /\ limits = [NoLimits EXCEPT !.ctx = {"c1"},
                               !.controlMsgs = FailControlMsgs,
                               !.failures = FailFailures,
                               !.types = {"new_window"},
                               !.tokens = {"T"}, !.passwords = {Undefined},
                               !.rawClientIds = {"missing"}]
FailNext ==
  \/ Connect \/ Auth \/ Mutation \/ EnsListed \/ Created
  \/ AttListed \/ AttCreated \/ GatewayReturned \/ Published
FailSpec == FailInit /\ [][FailNext]_vars

\* ----------------------------------------------------------------------
\* C23: when the initial attach after a successful auth fails at any step
\* (listing, session creation, grouped-session creation, PTY spawn) the client
\* is sent the error, the context stays authed and is left without an
\* attached session, so that a later window command makes no gateway call.
\* ----------------------------------------------------------------------
C23_InitialAttachErrors(c) ==
  {out[c][k] : k \in {k \in DOMAIN out[c] :
     /\ out[c][k].type = "error"
     /\ \E g \in gatewayCalls : g.ctx = c /\ g.n = out[c][k].n /\ g.verified}}
C23_FailedAttachLeavesNone ==
  \A c \in Ctx : \A m \in C23_InitialAttachErrors(c) :
    /\ context[c].authed
    /\ context[c].attachedSession = Undefined
    /\ \A g \in gatewayCalls : g.ctx = c /\ g.n > m.n => g.op # "newWindow"
C23_ExceptSpawn ==
  \A c \in Ctx : \A m \in C23_InitialAttachErrors(c) :
    m.arg # "spawn failed" =>
      /\ context[c].authed
      /\ context[c].attachedSession = Undefined
      /\ \A g \in gatewayCalls : g.ctx = c /\ g.n > m.n => g.op # "newWindow"

\* One authed client and a data socket that binds to it and sends frames of
\* every shape, before the attach, while the PTY lives and after it exited
FrameInit ==
  /\ Init
  /\ configPassword = Undefined
  /\ sessions["main"] = "own" /\ sessions["work"] = "absent"
  /\ limits = [NoLimits EXCEPT !.ctx = {"c1"}, !.data = {"d1"},
                               !.controlMsgs = FrameControlMsgs,
                               !.dataMsgs = FrameDataMsgs,
                               !.events = FrameEvents,
                               !.tokens = {"T"}, !.passwords = {Undefined},
                               !.rawClientIds = {"X"}, !.dataClientIds = {"X"},
                               !.frames = {"auth"}]
FrameNext ==
  \/ Connect \/ Auth \/ EnsListed \/ AttListed \/ AttCreated \/ Published
  \/ PtyExits \/ DataConnects \/ DataUnauthed \/ DataFrames
FrameSpec == FrameInit /\ [][FrameNext]_vars

\* ----------------------------------------------------------------------
\* C24: of the frames an authed data socket receives while its context has
\* a live PTY, a text frame starting with "{" that parses as a JSON object
\* with type "resize" and numeric cols and rows leads to runtime.resize(cols,
\* rows) and to no write; every other frame is written to the PTY exactly
\* once, and the PTY receives the frame's original content.
\* ----------------------------------------------------------------------
C24_IsResize(frame) ==
  /\ ~frame.binary
  /\ startsWithBrace(frame.text)
  /\ ~JSONparseThrows(frame.text)
  /\ isResizePayload(frame.text)
C24_Original(call1, frame) ==
  IF frame.binary THEN utf8Bytes(call1.data) = frame.bytes
  ELSE call1.text = frame.text
C24_FrameHandled ==
  \A f \in dataFrames :
    f.process # 0 =>
      /\ Len(f.calls) = 1
      /\ IF C24_IsResize(f.frame)
           THEN /\ f.calls[1].op = "resize"
                /\ f.calls[1].cols = payloadGet(f.frame.text, "cols").int
                /\ f.calls[1].rows = payloadGet(f.frame.text, "rows").int
           ELSE /\ f.calls[1].op = "write"
                /\ C24_Original(f.calls[1], f.frame)
C24_ValidUtf8Handled ==
  \A f \in dataFrames :
    (f.process # 0 /\ (f.frame.binary => utf8Bytes(toString(f.frame.bytes)) = f.frame.bytes)) =>
      /\ Len(f.calls) = 1
      /\ IF C24_IsResize(f.frame)
           THEN /\ f.calls[1].op = "resize"
                /\ f.calls[1].cols = payloadGet(f.frame.text, "cols").int
                /\ f.calls[1].rows = payloadGet(f.frame.text, "rows").int
           ELSE /\ f.calls[1].op = "write"
                /\ C24_Original(f.calls[1], f.frame)

\* Two clients that send auth messages with any token and password, to a
\* broker with or without a configured password
VerifyInit ==
  /\ Init
  /\ sessions["main"] = "own" /\ sessions["work"] = "absent"
  /\ limits = [NoLimits EXCEPT !.ctx = {"c1", "c2"},
                               !.controlMsgs = VerifyControlMsgs,
                               !.tokens = Tokens \cup {""},
                               !.passwords = Passwords \cup {""},
                               !.rawClientIds = {"missing"}]
VerifyNext ==
  \/ Connect \/ AuthRejected \/ Auth \/ EnsListed \/ AttListed \/ AttCreated
  \/ Published
VerifySpec == VerifyInit /\ [][VerifyNext]_vars

\* ----------------------------------------------------------------------
\* C25: verify({token, password}) fails with "invalid token" when the token
\* is missing or is not the configured token, whatever the password;
\* otherwise it fails with "invalid password" when a password is configured
\* and the supplied one differs; it succeeds in all remaining cases.  Seen
\* at the control socket: the auth message is answered with auth_error and
\* that reason, or the socket becomes authed and is sent auth_ok.
\* ----------------------------------------------------------------------
C25_Expected(token, password) ==
  CASE token \in {Undefined, ""} \/ token # "T" -> "invalid token"
    [] token = "T" /\ configPassword # Undefined /\ password # configPassword ->
         "invalid password"
    [] OTHER -> "ok"
C25_Answer(c) ==
  LET m == lastIn'[c]
      n == arrivals'[c]
      e == C25_Expected(m.token, m.password)
  IN IF e = "ok"
       THEN /\ context'[c].authed
            /\ out'[c] = Append(out[c], Msg("auth_ok", n, context'[c].clientId))
       ELSE /\ ~context'[c].authed
            /\ handlers'[c] = handlers[c]
            /\ out'[c] = Append(out[c], Msg("auth_error", n, e))
C25_VerifyTable ==
  [][\A c \in Ctx :
       (arrivals'[c] = arrivals[c] + 1 /\ ~context[c].authed) => C25_Answer(c)]_vars
C25_Witness ==
  /\ configPassword = "pw"
  /\ \E c \in Ctx :
       /\ Len(out[c]) = 3
       /\ out[c][1] = Msg("auth_error", 1, "invalid token")
       /\ out[c][2] = Msg("auth_error", 2, "invalid password")
       /\ out[c][3].type = "auth_ok"

\* Two clients with one base session; the PTY of either may exit, and the
\* client may then type and attach again to the same session
ExitInit ==
  /\ Init
  /\ configPassword = Undefined
  /\ sessions["main"] = "own" /\ sessions["work"] = "absent"
  /\ limits = [NoLimits EXCEPT !.ctx = {"c1", "c2"},
                               !.controlMsgs = ExitControlMsgs,
                               !.events = ExitEvents,
                               !.types = {"select_session", "send_compose"},
                               !.tokens = {"T"}, !.passwords = {Undefined},
                               !.rawClientIds = {"missing"}]
ExitNext ==
  \/ Connect \/ Auth \/ Mutation \/ EnsListed \/ AttListed \/ AttKilled
  \/ AttCreated \/ Published \/ PtyExits
ExitSpec == ExitInit /\ [][ExitNext]_vars

\* ----------------------------------------------------------------------
\* C26: when a context's PTY exits, the control socket of that context and
\* no other is sent one info "tmux client exited"; the runtime forgets the
\* process, so that no runtime holds a PTY that has exited and a write with
\* no process changes nothing; an attach command that completes afterwards,
\* even to the same session name, leaves the runtime with a new, live PTY.
\* ----------------------------------------------------------------------
C26_Info == Msg("info", 0, "tmux client exited")
C26_Exited(p) ==
  /\ p \in DOMAIN ptys
  /\ ptys[p].status = "alive"
  /\ ptys'[p].status = "exited"
C26_OnExit(p) ==
  LET owner == ptys[p].owner IN
  /\ out'[owner] = IF csock[owner] = "open" THEN Append(out[owner], C26_Info)
                   ELSE out[owner]
  /\ \A c \in Ctx \ {owner} : out'[c] = out[c]
  /\ \A c \in Ctx : \A r \in DOMAIN runtimes'[c] : runtimes'[c][r].process # p
C26_Forgotten ==
  \A c \in Ctx : \A r \in DOMAIN runtimes[c] :
    runtimes[c][r].process # 0 => ptys[runtimes[c][r].process].status = "alive"
C26_WriteIsNoOp(c) ==
  (/\ arrivals'[c] = arrivals[c] + 1
   /\ context[c].runtime # 0
   /\ runtimes[c][context[c].runtime].process = 0
   /\ context'[c].runtime = context[c].runtime
   /\ runtimes'[c] = runtimes[c])
  => ptyWrites' = ptyWrites /\ ptys' = ptys
C26_AttachSpawns(c) ==
  (/\ Len(out'[c]) = Len(out[c]) + 1
   /\ out'[c][Len(out'[c])].type = "attached"
   /\ context[c].runtime # 0
   /\ runtimes[c][context[c].runtime].process = 0)
  => LET pid == runtimes'[c][context'[c].runtime].process IN
     /\ pid = Len(ptys) + 1
     /\ Len(ptys') = pid
     /\ ptys'[pid].status = "alive"
     /\ ptys'[pid].owner = c
     /\ ptys'[pid].session = context'[c].attachedSession
C26_ExitHandled ==
  [][/\ \A p \in DOMAIN ptys : C26_Exited(p) => C26_OnExit(p)
     /\ C26_Forgotten'
     /\ \A c \in Ctx : C26_WriteIsNoOp(c) /\ C26_AttachSpawns(c)]_vars
C26_Witness ==
  \E c \in Ctx : \E p, q \in DOMAIN ptys :
    /\ ptys[p].owner = c /\ ptys[q].owner = c
    /\ ptys[p].status = "exited" /\ ptys[q].status = "alive"
    /\ ptys[p].session = ptys[q].session
    /\ Cardinality({k \in DOMAIN out[c] : out[c][k] = C26_Info}) = 1
    /\ \E b \in Ctx \ {c} : csock[b] = "open" /\ \A k \in DOMAIN out[b] : out[b][k] # C26_Info

\* The list commands over every short list of records of each shape
ParseInit ==
  /\ MonInit /\ BrokerInit
  /\ configPassword = Undefined
  /\ sessions["main"] = "own" /\ sessions["work"] = "absent"
  /\ limits = NoLimits
  /\ \E shape \in {"sessions", "windows", "panes"} :
       \E records \in Lists(RecordsOf(shape)) :
         cli = [NoCli EXCEPT !.pc = "call", !.shape = shape, !.records = records]
ParseNext == CliRun \/ CliParse
ParseSpec == ParseInit /\ [][ParseNext]_vars

\* ----------------------------------------------------------------------
\* C27: for each record shape, parsing the output printed with the format
\* string returns the original records: sessions as name/attached/windows,
\* windows as index/name/active/paneCount, panes as index/id/currentCommand/
\* active/width x height, with the pane's zoomed flag from the activeZoom
\* field.
\* ----------------------------------------------------------------------
C27_Same(shape, r, p) ==
  CASE shape = "sessions" ->
         /\ p.name = r.name /\ p.attached = r.attached /\ p.windows = r.windows
    [] shape = "windows" ->
         /\ p.index = r.index /\ p.name = r.name /\ p.active = r.active
         /\ p.paneCount = r.paneCount
    [] shape = "panes" ->
         /\ p.index = r.index /\ p.id = r.id
         /\ p.currentCommand = r.currentCommand /\ p.active = r.active
         /\ p.width = r.width /\ p.height = r.height
         /\ "zoomed" \in DOMAIN p
         /\ p.zoomed = r.zoomed
C27_RoundTripOf(shapes) ==
  (cli.pc = "parsed" /\ cli.shape \in shapes) =>
    /\ Len(cli.parsed) = Len(cli.records)
    /\ \A k \in DOMAIN cli.records :
         C27_Same(cli.shape, cli.records[k], cli.parsed[k])
C27_RoundTrip == C27_RoundTripOf({"sessions", "windows", "panes"})
C27_SessionsRoundTrip == C27_RoundTripOf({"sessions"})
C27_WindowsRoundTrip == C27_RoundTripOf({"windows"})
C27_PanesRoundTrip == C27_RoundTripOf({"panes"})

\* ----------------------------------------------------------------------
\* C28: in every reachable state, a control context has a runtime if and
\* only if it has an attachedSession, also after an attach that failed
\* part-way and during and after shutdownControlContext.
\* ----------------------------------------------------------------------
C28_Paired(c) == (context[c].runtime # 0) <=> (context[c].attachedSession # Undefined)
C28_RuntimeIffAttached == \A c \in Ctx : C28_Paired(c)
C28_PairedAtRest ==
  \A c \in Ctx :
    (handlers[c] = <<>> /\ \A t \in shutdowns : t.ctx # c) => C28_Paired(c)

\* ----------------------------------------------------------------------
\* C29: every data socket that is authed (and whose DataContext still
\* exists, its close event not yet handled) is bound to a control context
\* that is registered and not shut down, and is a member of that context's
\* terminalClients, also after the control socket closed or was evicted.
\* ----------------------------------------------------------------------
C29_Live(c) == c \in controlClients /\ csock[c] = "open"
C29_Bound(d) ==
  LET c == dataContext[d].controlContext IN
  /\ c \in Ctx
  /\ C29_Live(c)
  /\ d \in context[c].terminalClients
  /\ \A b \in Ctx \ {c} : d \notin context[b].terminalClients
C29_LiveBinding ==
  \A d \in Data : (dataContext[d].authed /\ dsock[d] # "closed") => C29_Bound(d)
C29_OpenLiveBinding ==
  \A d \in Data : (dataContext[d].authed /\ dsock[d] = "open") => C29_Bound(d)

\* ----------------------------------------------------------------------
\* C30: polling never overlaps: at any time at most one tick timer is
\* pending or one snapshot build started by a tick is in flight, for every
\* interleaving of ticks and forcePublish calls; a forcePublish that
\* completes while a tick is in flight starts no second tick loop.
\* ----------------------------------------------------------------------
C30_PendingTimers == (IF timerArmed THEN 1 ELSE 0) + strayTimers
C30_TicksInFlight == Cardinality({b \in builds : b.origin = "tick"})
C30_NoOverlap == C30_PendingTimers + C30_TicksInFlight <= 1
C30_OneTimer == C30_PendingTimers <= 1

\* ----------------------------------------------------------------------
\* C31: the mobile session an authed, attached control context is using is
\* never killed, except by that context's own shutdown or by its own
\* re-selection of a base session; the late shutdown of a closed or
\* evicted context of the same client id does not kill the session of the
\* context that replaced it.
\* A context is in use of session m across a step when it is registered,
\* authed, open and attached to m before and after the step.  Its own
\* shutdown unregisters it, and its own re-selection is one of its handlers
\* leaving the await of killSession at line 262.
\* ----------------------------------------------------------------------
C31_Using(c, m) ==
  /\ c \in controlClients
  /\ csock[c] = "open"
  /\ context[c].authed
  /\ context[c].attachedSession = m
  /\ context[c].runtime # 0
C31_StillUsing(c, m) ==
  /\ c \in controlClients'
  /\ csock'[c] = "open"
  /\ context'[c].authed
  /\ context'[c].attachedSession = m
C31_Killed(m) == sessions[m] # "absent" /\ sessions'[m] = "absent"
C31_OwnReselect(c) ==
  \E i \in DOMAIN handlers[c] :
    /\ handlers[c][i].pc = "attKill"
    /\ handlers'[c][i].pc # "attKill"
C31_KilledByOthers ==
  \E m \in MobileNames : \E c \in Ctx :
    /\ C31_Killed(m)
    /\ C31_Using(c, m)
    /\ C31_StillUsing(c, m)
    /\ ~C31_OwnReselect(c)
C31_NoForeignKill == [][~C31_KilledByOthers]_vars

\* One client that comes back after a restart of the broker: the mobile
\* session of its client id is still there, grouped with one of the two
\* base sessions, and the broker remembers nothing
StaleInit ==
  /\ MonInit /\ BrokerStart /\ cli = NoCli
  /\ configPassword = Undefined
  /\ \E group \in BaseNames :
       sessions = [n \in AllNames |->
                     IF n \in BaseNames THEN "own"
                     ELSE IF n = buildMobileSessionName("X") THEN group
                     ELSE "absent"]
  /\ limits = [NoLimits EXCEPT !.ctx = {"c1"},
                               !.controlMsgs = StaleControlMsgs,
                               !.types = {"select_session"},
                               !.tokens = {"T"}, !.passwords = {Undefined},
                               !.rawClientIds = {"X"}]
StaleNext ==
  \/ Connect \/ Auth \/ Mutation \/ EnsListed \/ AttListed \/ AttKilled
  \/ AttCreated \/ Published
StaleSpec == StaleInit /\ [][StaleNext]_vars

\* ----------------------------------------------------------------------
\* C32: when attachControlToBaseSession(context, base) completes without
\* error, the mobile session of the context's client id exists and is
\* grouped with base, context.baseSession is base and
\* context.attachedSession is the mobile session; a mobile session that
\* existed grouped with another base has been killed and created again.
\* The call completes in the step in which its handler sends attached
\* (line 273) and goes on to forcePublish.
\* ----------------------------------------------------------------------
C32_AttachPcs == {"attList", "attCreate", "resSelect", "resList", "resZoom"}
C32_Completes(c, i) ==
  /\ i \in DOMAIN handlers[c]
  /\ i \in DOMAIN handlers'[c]
  /\ handlers[c][i].pc \in C32_AttachPcs
  /\ handlers'[c][i].n = handlers[c][i].n
  /\ handlers'[c][i].pc = "fp"
  /\ ~handlers'[c][i].threw
C32_Post(c, i) ==
  LET base == handlers[c][i].base
      mobile == buildMobileSessionName(context'[c].clientId)
  IN /\ sessions'[mobile] = base
     /\ context'[c].baseSession = base
     /\ context'[c].attachedSession = mobile
C32_AttachPostcondition ==
  [][\A c \in Ctx : \A i \in 1..MaxHandlers : C32_Completes(c, i) => C32_Post(c, i)]_vars

\* ----------------------------------------------------------------------
\* C33: when the snapshot build fails during forcePublish, the error is
\* propagated to the caller of forcePublish (the promise it returned
\* rejects) and is not swallowed.
\* ----------------------------------------------------------------------
C33_ForceErrorsPropagate ==
  \A f \in failedBuilds : f.origin = "force" => f.rejected
\* what the code does with them: every one went to onError
C33_ForceErrorsReported ==
  /\ \A f \in failedBuilds : f.rejected <=> f.origin = "start"
  /\ onErrorCalls = Cardinality({f \in failedBuilds : ~f.rejected})

\* ----------------------------------------------------------------------
\* C34: when select_session or new_session fails with a gateway error, the
\* issuing client is sent error {message} and the attachment the context
\* had is intact: baseSession, attachedSession and the existence and the
\* grouping of its mobile session are as they were and agree with each
\* other.
\* Taken at the step in which the command fails, for a context that is
\* registered and open and has no other handler in flight: the session it
\* is attached to, if any, exists and is grouped with its baseSession.
\* ----------------------------------------------------------------------
C34_Fails(c, i) ==
  /\ c \in controlClients /\ csock[c] = "open" /\ context[c].authed
  /\ DOMAIN handlers[c] = {i}
  /\ DOMAIN handlers'[c] = {i}
  /\ handlers[c][i].type \in {"select_session", "new_session"}
  /\ ~handlers[c][i].threw
  /\ handlers'[c][i].threw
C34_Intact(c) ==
  /\ context'[c].attachedSession = context[c].attachedSession
  /\ context'[c].baseSession = context[c].baseSession
  /\ context'[c].attachedSession # Undefined =>
       sessions'[context'[c].attachedSession] = context'[c].baseSession
C34_FailureLeavesAttachment ==
  [][\A c \in Ctx : \A i \in 1..MaxHandlers : C34_Fails(c, i) => C34_Intact(c)]_vars
\* the failures that come before anything was killed do leave it intact
C34_EarlyFailure(c, i) ==
  /\ C34_Fails(c, i)
  /\ handlers[c][i].pc \in {"nsCreate", "attList", "attKill"}
C34_EarlyFailureLeavesAttachment ==
  [][\A c \in Ctx : \A i \in 1..MaxHandlers :
       (C34_EarlyFailure(c, i) /\ context[c].attachedSession # Undefined
        /\ sessions[context[c].attachedSession] = context[c].baseSession)
         => C34_Intact(c)]_vars

\* ----------------------------------------------------------------------
\* C35: a context's attachedSession, whenever set, is "tmux-mobile-client-"
\* followed by its clientId; every createGroupedSession and killSession the
\* broker issues names a session with that prefix; the broker never kills
\* a base session.
\* ----------------------------------------------------------------------
C35_AttachedIsOwnMobile ==
  \A c \in Ctx :
    context[c].attachedSession # Undefined =>
      context[c].attachedSession = buildMobileSessionName(context[c].clientId)
C35_CallsNameMobile ==
  \A g \in gatewayCalls :
    g.op \in {"createGroupedSession", "killSession"} => isManagedMobileSession(g.target)
C35_BaseNeverKilled ==
  [][\A n \in BaseNames : sessions[n] # "absent" => sessions'[n] # "absent"]_vars
C35_MobilePrefix ==
  /\ [](C35_AttachedIsOwnMobile /\ C35_CallsNameMobile)
  /\ C35_BaseNeverKilled

\* One client with two base sessions to choose from and a data socket that
\* sends a frame before or after the choice
ResizeInit ==
  /\ Init
  /\ configPassword = Undefined
  /\ \A n \in BaseNames : sessions[n] = "own"
  /\ limits = [NoLimits EXCEPT !.ctx = {"c1"}, !.data = {"d1"},
                               !.controlMsgs = ResizeControlMsgs,
                               !.dataMsgs = ResizeDataMsgs,
                               !.types = {"select_session"},
                               !.tokens = {"T"}, !.passwords = {Undefined},
                               !.rawClientIds = {"X"}, !.dataClientIds = {"X"},
                               !.frames = {"auth"}]
ResizeNext ==
  \/ Connect \/ Auth \/ Mutation \/ EnsListed \/ AttListed \/ AttCreated
  \/ Published \/ DataConnects \/ DataUnauthed \/ DataFrames
ResizeSpec == ResizeInit /\ [][ResizeNext]_vars

\* ----------------------------------------------------------------------
\* C36: a valid resize received on an authenticated data socket before its
\* context has attached to any session (while the session picker is shown,
\* say) is not lost: the PTY the later attach spawns has those dimensions
\* and not 80x24.
\* Taken for the first PTY spawned for the context after the frame, with
\* no other resize frame received in between.
\* ----------------------------------------------------------------------
C36_ValidResize(f) ==
  /\ ~f.frame.binary
  /\ frameCalls(f.frame) # <<>>
  /\ frameCalls(f.frame)[1].op = "resize"
  /\ ~resizeRejected(frameCalls(f.frame)[1].cols, frameCalls(f.frame)[1].rows)
C36_Early(f) == C36_ValidResize(f) /\ f.attached = Undefined /\ f.spawned = 0
C36_Dims(f) ==
  <<floor(frameCalls(f.frame)[1].cols), floor(frameCalls(f.frame)[1].rows)>>
C36_LastBefore(f, p) ==
  /\ p \in DOMAIN ptys
  /\ ptys[p].owner = f.ctx
  /\ \A q \in DOMAIN ptys : q >= p
  /\ \A g \in dataFrames : g.n <= f.n
C36_EarlyResizeKept ==
  \A f \in dataFrames : \A p \in DOMAIN ptys :
    (C36_Early(f) /\ C36_LastBefore(f, p)) => ptys[p].initial = C36_Dims(f)
\* a valid resize that arrives once the runtime exists is kept
C36_LaterResizeKept ==
  \A f \in dataFrames : \A p \in DOMAIN ptys :
    (C36_ValidResize(f) /\ f.calls # <<>> /\ f.spawned = 0 /\ C36_LastBefore(f, p))
      => ptys[p].initial = C36_Dims(f)

\* Two clients with random client ids; the second to auth sends session
\* names of its own making
NameInit ==
  /\ Init
  /\ configPassword = Undefined
  /\ sessions["main"] = "own" /\ sessions["work"] = "absent"
  /\ limits = [NoLimits EXCEPT !.ctx = {"c1", "c2"},
                               !.controlMsgs = NameControlMsgs,
                               !.types = {"select_session", "new_session"},
                               !.tokens = {"T"}, !.passwords = {Undefined},
                               !.rawClientIds = {"missing"}]
NameNext ==
  \/ Connect \/ Auth \/ MutationNamed \/ EnsListed \/ Created \/ AttListed
  \/ AttKilled \/ AttCreated \/ Published
NameSpec == NameInit /\ [][NameNext]_vars

\* ----------------------------------------------------------------------
\* C37: the session names a client supplies in select_session and
\* new_session never make the broker create a session whose name has the
\* prefix tmux-mobile-client-, nor group a mobile session with one; so a
\* context's baseSession never has the prefix and no client attaches to
\* the mobile session of another client.
\* A session of its own (not grouped) comes from createSession only; the
\* mobile sessions the broker makes are grouped.
\* ----------------------------------------------------------------------
C37_NoneCreated == \A n \in MobileNames : sessions[n] # "own"
C37_NoneGroupedWith == \A n \in AllNames : ~isManagedMobileSession(sessions[n])
C37_NoManagedBase == \A c \in Ctx : ~isManagedMobileSession(context[c].baseSession)
C37_SuppliedNamesHarmless ==
  C37_NoneCreated /\ C37_NoneGroupedWith /\ C37_NoManagedBase

\* A TerminalRuntime on its own: attaches to either of two sessions,
\* resizes, shutdowns and PTY exits in any order; one spawn may throw
RuntimeInit ==
  /\ Init
  /\ configPassword = Undefined
  /\ sessions["main"] = "own" /\ sessions["work"] = "own"
  /\ limits = [NoLimits EXCEPT !.events = RuntimeEvents, !.failures = 1]
RuntimeNext ==
  \/ RuntimeNew \/ RuntimeAttaches \/ RuntimeResizes \/ RuntimeShutdown
  \/ PtyExits
RuntimeSpec == RuntimeInit /\ [][RuntimeNext]_vars

\* ----------------------------------------------------------------------
\* C38: TerminalRuntime.resize ignores a request whose cols or rows is not
\* finite or is less than 2 and leaves the stored dimensions as they were;
\* otherwise it stores the values truncated to integers.  So the stored
\* dimensions are always integers >= 2 (80x24 until the first valid
\* resize), and every PTY spawned by attach is resized to the last valid
\* dimensions.
\* ----------------------------------------------------------------------
C38_Valid(cols, rows) ==
  /\ cols.finite /\ rows.finite
  /\ cols.tenths >= 20 /\ rows.tenths >= 20
C38_Trunc(x) ==
  CHOOSE n \in 0..x.tenths : 10 * n <= x.tenths /\ x.tenths < 10 * (n + 1)
C38_Rt == runtimes["c1"][1]
C38_Stored ==
  \A c \in Ctx : \A r \in DOMAIN runtimes[c] :
    /\ \A k \in 1..2 : runtimes[c][r].lastDimensions[k] \in Nat
                        /\ runtimes[c][r].lastDimensions[k] >= 2
    /\ runtimes[c][r].lastCall = <<>> /\ ptys = <<>>
         => runtimes[c][r].lastDimensions = <<80, 24>>
C38_OnResize ==
  \A dims \in SizeInputs :
    RuntimeResize(dims[1], dims[2]) =>
      runtimes'["c1"][1].lastDimensions =
        IF C38_Valid(dims[1], dims[2])
          THEN <<C38_Trunc(dims[1]), C38_Trunc(dims[2])>>
          ELSE C38_Rt.lastDimensions
\* only resize writes the stored dimensions, so they are the last valid ones
C38_OnOthers ==
  (runtimes["c1"] # <<>> /\ \A dims \in SizeInputs : ~RuntimeResize(dims[1], dims[2]))
    => runtimes'["c1"][1].lastDimensions = C38_Rt.lastDimensions
C38_OnSpawn ==
  \A p \in DOMAIN ptys' \ DOMAIN ptys : ptys'[p].initial = C38_Rt.lastDimensions
C38_ResizeStoresValid ==
  /\ []C38_Stored
  /\ [][C38_OnResize /\ C38_OnOthers /\ C38_OnSpawn]_vars
\* a resize with fractions was stored truncated, a later request that is not
\* finite was ignored, and the PTY spawned after that got the stored size
C38_Witness ==
  /\ runtimes["c1"] # <<>> /\ C38_Rt.lastCall # <<>>
  /\ ~C38_Rt.lastCall[1].cols.finite
  /\ C38_Rt.lastCall[1].before = <<120, 40>>
  /\ C38_Rt.lastDimensions = <<120, 40>>
  /\ Len(ptys) > C38_Rt.lastCall[1].spawned
  /\ ptys[Len(ptys)].initial = <<120, 40>>

\* ----------------------------------------------------------------------
\* C39: a TerminalRuntime owns at most one live PTY at a time.  An attach
\* to the current session while a process exists spawns nothing; any other
\* attach kills the current process, if any, and then spawns exactly one
\* new PTY; shutdown kills the process and forgets it.
\* ----------------------------------------------------------------------
C39_Live(c, r) ==
  {p \in DOMAIN ptys : ptys[p].owner = c /\ ptys[p].rt = r /\ ptys[p].status = "alive"}
C39_OneLive ==
  \A c \in Ctx : \A r \in DOMAIN runtimes[c] :
    /\ Cardinality(C39_Live(c, r)) <= 1
    /\ C39_Live(c, r) = {runtimes[c][r].process} \ {0}
C39_Rt == runtimes["c1"][1]
C39_OthersKept == \A p \in DOMAIN ptys : p # C39_Rt.process => ptys'[p] = ptys[p]
C39_AfterAttach(session) ==
  IF C39_Rt.session = session /\ C39_Rt.process # 0
    THEN ptys' = ptys /\ runtimes' = runtimes
    ELSE /\ Len(ptys') = Len(ptys) + 1
         /\ C39_Rt.process # 0 => ptys'[C39_Rt.process].status = "killed"
         /\ C39_OthersKept
         /\ ptys'[Len(ptys')].status = "alive"
         /\ ptys'[Len(ptys')].session = session
         /\ runtimes'["c1"][1].process = Len(ptys')
         /\ runtimes'["c1"][1].session = session
C39_AfterShutdown ==
  /\ Len(ptys') = Len(ptys)
  /\ C39_Rt.process # 0 => ptys'[C39_Rt.process].status = "killed"
  /\ C39_OthersKept
  /\ runtimes'["c1"][1].process = 0
C39_Methods ==
  /\ \A session \in BaseNames : RuntimeAttach(session, TRUE) => C39_AfterAttach(session)
  /\ RuntimeShutdown => C39_AfterShutdown
C39_AtMostOneLivePty ==
  /\ []C39_OneLive
  /\ [][C39_Methods]_vars
\* the runtime has attached to the session it was on, after its process had
\* exited, and to another session while its process was alive, and was shut
\* down while it had a process
C39_Witness ==
  /\ Len(ptys) >= 3
  /\ ptys[1].session = ptys[2].session /\ ptys[1].status = "exited"
  /\ ptys[3].session # ptys[2].session /\ ptys[2].status = "killed"
  /\ ptys[3].status = "killed"
  /\ runtimes["c1"][1].process = 0

\* ----------------------------------------------------------------------
\* C40: the fingerprint the StateMonitor stores is always the serialization
\* of the sessions of the snapshot most recently delivered to onUpdate.  A
\* forced publish that delivers sets it whether or not the text changed; a
\* discarded (stale) build and an unchanged unforced one leave it as it was.
\* ----------------------------------------------------------------------
C40_FingerprintIsLastDelivered ==
  IF delivered = <<>>
    THEN lastSerializedState = Undefined
    ELSE lastSerializedState = Serialize(delivered[Len(delivered)].snap)
C40_Delivers(b) ==
  /\ Len(delivered') = Len(delivered) + 1
  /\ delivered'[Len(delivered')].id = b.id
  /\ delivered'[Len(delivered')].snap = b.snap
  /\ lastSerializedState' = Serialize(b.snap)
C40_Keeps == delivered' = delivered /\ lastSerializedState' = lastSerializedState
C40_AfterBuild(b) ==
  IF b.gen # forceGeneration THEN C40_Keeps
  ELSE IF b.force THEN C40_Delivers(b)
  ELSE IF Serialize(b.snap) = lastSerializedState THEN C40_Keeps
  ELSE C40_Delivers(b)
C40_Publishes == \A b \in builds : BuildResolve(b) => C40_AfterBuild(b)
C40_Others == (\A b \in builds : ~BuildResolve(b)) => C40_Keeps
C40_Fingerprint ==
  /\ []C40_FingerprintIsLastDelivered
  /\ [][C40_Publishes /\ C40_Others]_vars
\* a forced publish delivered a snapshot whose text was the stored one, and
\* after a delivery one build was discarded as stale and an unchanged one
\* was not delivered
C40_Witness ==
  /\ \E k \in 2..Len(delivered) :
       delivered[k].force /\ delivered[k].snap = delivered[k - 1].snap
  /\ \E d \in discarded : d.after >= 1
  /\ \E u \in suppressed : u.after >= 1 /\ Serialize(u.snap) = lastSerializedState
====
